---- MODULE Spec2Model ----
(***************************************************************************)
(* State-machine model of the ftzz generation engine:                      *)
(*   - the task generators of src/src/core/tasks.rs (DynamicGenerator and  *)
(*     StaticGenerator, duplicate insertion, pending-duplicate buffer),    *)
(*   - the depth-first tree walk that drives them (the scheduler),         *)
(*   - the per-task materializer of src/src/core/files.rs and the content  *)
(*     writers of src/src/core/file_contents.rs,                           *)
(*   - the audit trail of src/src/core/audit.rs,                           *)
(*   - the command line and configuration file of src/src/main.rs and      *)
(*     src/src/config.rs.                                                  *)
(*                                                                         *)
(* Spec      : one run of the scheduler over one generator; every call of  *)
(*             queue_gen / maybe_queue_final_gen is logged in `calls`.     *)
(* SpecDrain : the same, for runs with many copies per duplicated file.    *)
(* SpecRun   : the generator together with the dispatched tasks, which     *)
(*             materialize concurrently, one filesystem call per step.     *)
(* SpecPair  : two materializations of the same generator output, each     *)
(*             with its own interleaving of the tasks.                     *)
(* SpecMisalign : generator and tasks of runs with both exact targets.     *)
(* SpecTasks : SpecRun for the runs without a permission palette.          *)
(* SpecWalk  : the generator's calls alone, for the runs of SpecRun with   *)
(*             one more duplicate.                                         *)
(* SpecCap   : SpecRun under a cap on outstanding tasks that is reached.   *)
(* SpecAudit : SpecPair with an audit trail in each materialization.       *)
(* SpecSizes : calculate_directory_sizes over bounded audit trails.        *)
(* SpecMerge : Generate::merge over bounded command lines and config files.*)
(* SpecCli   : ftzz() from the parsed command line to the exit code, with  *)
(*             the run of a dynamic generator when the options are valid.  *)
(***************************************************************************)
EXTENDS Integers, Sequences, FiniteSets, TLC

(***************************************************************************)
(* Bounds of the model.                                                    *)
(***************************************************************************)
MaxDepth == 1        \* largest max_depth of a run
MaxExactFiles == 2   \* largest files_exact target
MaxExactBytes == 2   \* largest bytes_exact target
MaxDups == 3         \* largest max_duplicates_per_file
U64Max == 3          \* scaled-down stand-in for u64::MAX in the threshold test
MaxTotalFiles == 3   \* the file-count samples of a run add up to at most this
MaxTotalDirs == 2    \* the directory-count samples of a run add up to at most this
MaxTotalDups == 2    \* the RNG selects at most this many duplicates in a run
DrainMaxDups == 4    \* max_duplicates_per_file of the runs of SpecDrain
DrainTotalDups == 3  \* duplicates the RNG may select in a run of SpecDrain
MisalignTarget == 4  \* files_exact and bytes_exact of the static runs of SpecMisalign
RunExactFiles == 2   \* files_exact target of the static runs of SpecRun / SpecPair
RunExactBytes == 2   \* bytes_exact target of the static runs of SpecRun / SpecPair
RunTotalFiles == 2   \* the file-count samples of a run of SpecRun / SpecPair
RunTotalDirs == 1    \* the directory-count samples of a run of SpecRun / SpecPair
RunTotalDups == 1    \* duplicates the RNG may select in a run of SpecRun / SpecPair
UncappedTasks == 8   \* a cap on outstanding tasks that no run of the model reaches
CapTasks == 2        \* cap on outstanding tasks of the runs of SpecCap
MaxEntries == 3      \* longest audit trail of SpecSizes
MaxEntrySize == 2    \* largest file size in an audit trail of SpecSizes
CliValue == 1        \* the value of every option given on the command line
ConfigValue == 2     \* the value of every key given in the configuration file
MaxGiven == 2        \* most options given on a command line / keys in a file of SpecMerge

None == -1           \* Option::None of an Option<u64> / Option<u32>

Min(a, b) == IF a < b THEN a ELSE b
Max(a, b) == IF a > b THEN a ELSE b

RECURSIVE SumSeq(_)
SumSeq(s) == IF s = <<>> THEN 0 ELSE Head(s) + SumSeq(Tail(s))

\* permission palettes a run may be configured with (octal 600, 755)
Palettes == {<<>>, <<384, 493>>}
DupPercentages == {0, 100}

VARIABLES
    kind,                    \* "dynamic" | "static": which TaskGenerator runs
    random,                  \* position of the generator's RNG stream
    files_exact,             \* StaticGenerator.files_exact (None or remaining)
    bytes_exact,             \* StaticGenerator.bytes_exact (None or remaining)
    done,                    \* StaticGenerator.done
    root_num_files_hack,     \* StaticGenerator.root_num_files_hack
    pending_duplicates,      \* Vec<PendingDuplicate>
    bytes,                   \* Option<GeneratorBytes> is Some
    duplicate_percentage,
    max_duplicates_per_file,
    permissions,
    max_depth,
    stack,                   \* scheduler: frames of the depth-first walk
    phase,                   \* scheduler: "root" | "walk" | "final" | "end"
    calls,                   \* log of every generator call and its result
    requested,               \* the run's exact targets as given: [files, bytes]
    lim,                     \* bounds on the RNG's samples: [files, dirs, dups]
    max_tasks,               \* scheduler: the cap on outstanding tasks
    workers,                 \* per materialization: task index -> state of its worker
    fs_dirs,                 \* per materialization: the directories that exist
    fs_files,                \* per materialization: <<dir, name>> -> file written
    audit_trail,             \* the run has an audit trail (Option is Some)
    audit,                   \* per materialization: AuditTrail.entries
    cli                      \* main: the options, the config file, the position in ftzz()

genVars == <<kind, random, files_exact, bytes_exact, done, root_num_files_hack,
             pending_duplicates, bytes, duplicate_percentage,
             max_duplicates_per_file, permissions>>
schedVars == <<max_depth, stack, phase, calls, requested, lim, max_tasks>>
matVars == <<workers, fs_dirs, fs_files, audit_trail, audit, cli>>
vars == <<genVars, schedVars, matVars>>

(***************************************************************************)
(* Totals over the log of calls, used to bound the samples of a run.       *)
(***************************************************************************)
RECURSIVE CountSpecs(_, _)
CountSpecs(cs, dup) ==
    IF cs = <<>> THEN 0
    ELSE Cardinality({i \in 1..Len(Head(cs).file_objs) :
                        Head(cs).file_objs[i].is_duplicate = dup})
         + CountSpecs(Tail(cs), dup)

RECURSIVE CountDirs(_)
CountDirs(cs) == IF cs = <<>> THEN 0 ELSE Head(cs).num_dirs + CountDirs(Tail(cs))

PrimariesSoFar == CountSpecs(calls, FALSE)
DirsSoFar == CountDirs(calls)
DupsSoFar == CountSpecs(calls, TRUE) + Len(pending_duplicates)

\* the values sample_truncated(num_files_distr) may yield in the current state
FileSamples == 0..Max(0, lim.files - PrimariesSoFar)
\* how many more duplicates the cloned RNG may select in the current state
DupRoom == Max(0, lim.dups - DupsSoFar)

(***************************************************************************)
(* FileSpec and primary spec generation (tasks.rs, generate_primary_specs) *)
(***************************************************************************)
\* permission selected for a seed: permissions[seed % len], None if no palette
PermissionOf(seed, perms) ==
    IF perms = <<>> THEN None ELSE perms[(seed % Len(perms)) + 1]

MkSpec(seed, is_dup, perms) ==
    [seed |-> seed, is_duplicate |-> is_dup, permission |-> PermissionOf(seed, perms)]

\* rng.next_u64() at stream position p: a fresh value, one per position
NextU64(p) == p

\* num_files seeds drawn one after the other from the stream at position rnd
generate_primary_specs(num_files, rnd, perms) ==
    [i \in 1..num_files |-> MkSpec(NextU64(rnd + i - 1), FALSE, perms)]

(***************************************************************************)
(* Duplicate insertion (tasks.rs, add_duplicates_to_specs_and_buffer).     *)
(* The draws of the cloned RNG are nondeterministic: the operator yields   *)
(* the set of results [specs, sizes, pending] the call can produce.        *)
(***************************************************************************)
\* threshold = (prob * u64::MAX) as u64, prob = (pct / 100) / (max_dups / 2);
\* the float-to-integer cast saturates at u64::MAX
DupThreshold(pct, max_dups) ==
    Min(U64Max, (pct * 2 * U64Max) \div (100 * max_dups))

\* outcomes of `rng.next_u64() < threshold`
DupSelected(pct, max_dups) ==
    {r < DupThreshold(pct, max_dups) : r \in 0..U64Max}

\* a number of copies drawn from 1..max_dups
DupCopiesUpToMax(max_dups) == {(r % max_dups) + 1 : r \in 0..U64Max}

\* copies = if max_extra > 1 { rng % max_extra + 1 } else { 1 }
DupCopies(max_dups) ==
    LET max_extra == max_dups - 1
    IN  IF max_extra > 1 THEN {(r % max_extra) + 1 : r \in 0..U64Max} ELSE {1}

\* a duplicate insertion that derives the copy's seed afresh
PushCopyFreshSeed(st, i, scatter, has_sizes, perms) ==
    LET spec == MkSpec(st.specs[i].seed + 1, TRUE, perms)
        size_val == IF has_sizes THEN st.sizes[i] ELSE None
    IN  IF scatter
        THEN [st EXCEPT !.pending = Append(@, [spec |-> spec, size |-> size_val])]
        ELSE [st EXCEPT !.specs = Append(@, spec),
                        !.sizes = IF has_sizes THEN Append(@, size_val) ELSE @]

\* a duplicate insertion that never records the size of a scattered copy
PushCopyNoSize(st, i, scatter, has_sizes, perms) ==
    LET spec == MkSpec(st.specs[i].seed, TRUE, perms)
    IN  IF scatter
        THEN [st EXCEPT !.pending = Append(@, [spec |-> spec, size |-> None])]
        ELSE [st EXCEPT !.specs = Append(@, spec),
                        !.sizes = IF has_sizes THEN Append(@, st.sizes[i]) ELSE @]

\* one duplicate of primary i: scattered to the pending buffer or kept local
PushCopy(st, i, scatter, has_sizes, perms) ==
    LET spec == MkSpec(st.specs[i].seed, TRUE, perms)
        size_val == IF has_sizes THEN st.sizes[i] ELSE None
    IN  IF scatter
        THEN [st EXCEPT !.pending = Append(@, [spec |-> spec, size |-> size_val])]
        ELSE [st EXCEPT !.specs = Append(@, spec),
                        !.sizes = IF has_sizes THEN Append(@, size_val) ELSE @]

RECURSIVE PushCopies(_, _, _, _, _)
PushCopies(st, i, coins, has_sizes, perms) ==
    IF coins = <<>> THEN st
    ELSE PushCopies(PushCopy(st, i, Head(coins), has_sizes, perms),
                    i, Tail(coins), has_sizes, perms)

\* duplicates created so far by the call: local ones and scattered ones
DupsMade(st, n, pending0) == (Len(st.specs) - n) + (Len(st.pending) - Len(pending0))

\* `room` bounds the draws of the cloned RNG: it selects a primary only while
\* fewer than `room` duplicates were made by this call
RECURSIVE DupLoop(_, _, _, _, _, _, _, _, _)
DupLoop(st, i, n, has_sizes, pct, max_dups, perms, pending0, room) ==
    IF i > n THEN {st}
    ELSE IF has_sizes /\ st.sizes[i] = 0
    THEN DupLoop(st, i + 1, n, has_sizes, pct, max_dups, perms, pending0, room)
    ELSE UNION {
           IF sel
           THEN UNION { UNION { DupLoop(PushCopies(st, i, coins, has_sizes, perms),
                                        i + 1, n, has_sizes, pct, max_dups, perms,
                                        pending0, room)
                                : coins \in [1..c -> BOOLEAN] }
                        : c \in {k \in DupCopies(max_dups) :
                                   DupsMade(st, n, pending0) + k <= room} }
           ELSE DupLoop(st, i + 1, n, has_sizes, pct, max_dups, perms, pending0, room)
           : sel \in DupSelected(pct, max_dups) }

add_duplicates_to_specs_and_buffer(specs, has_sizes, sizes, pending, pct, max_dups, perms, room) ==
    LET st == [specs |-> specs, sizes |-> sizes, pending |-> pending]
    IN  IF Len(specs) = 0 \/ pct <= 0 THEN {st}
        ELSE IF max_dups < 2 THEN {st}
        ELSE DupLoop(st, 1, Len(specs), has_sizes, pct, max_dups, perms, pending, room)

(***************************************************************************)
(* Pending-duplicate drain (tasks.rs, "Inject pending", LIFO).             *)
(***************************************************************************)
DrainLimit(is_done, num_pending, num_files) ==
    IF is_done THEN num_pending ELSE Max(num_files \div 2, 1)

\* a drain that takes the oldest entries of the buffer first
RECURSIVE DrainPendingFifo(_, _, _)
DrainPendingFifo(st, count, track_sizes) ==
    IF count = 0 \/ st.pending = <<>> THEN st
    ELSE LET dup == Head(st.pending)
         IN  DrainPendingFifo(
                 [specs |-> Append(st.specs, dup.spec),
                  sizes |-> IF track_sizes
                            THEN Append(st.sizes, IF dup.size # None THEN dup.size ELSE 0)
                            ELSE st.sizes,
                  pending |-> Tail(st.pending)],
                 count - 1, track_sizes)

RECURSIVE DrainPending(_, _, _)
DrainPending(st, count, track_sizes) ==
    IF count = 0 \/ st.pending = <<>> THEN st
    ELSE LET dup == st.pending[Len(st.pending)]
             rest == SubSeq(st.pending, 1, Len(st.pending) - 1)
         IN  DrainPending(
                 [specs |-> Append(st.specs, dup.spec),
                  sizes |-> IF track_sizes
                            THEN Append(st.sizes, IF dup.size # None THEN dup.size ELSE 0)
                            ELSE st.sizes,
                  pending |-> rest],
                 count - 1, track_sizes)

(***************************************************************************)
(* queue (tasks.rs): dispatch the task unless it has nothing to do.        *)
(***************************************************************************)
NoContents == [kind |-> "none", byte_counts |-> <<>>]
OnTheFly == [kind |-> "onthefly", byte_counts |-> <<>>]
PreDefined(byte_counts) == [kind |-> "predefined", byte_counts |-> byte_counts]

\* a queue that spawns a task only when there are files to write
queue_files_only(op, target_dir, gen_dirs, file_objs, num_dirs, file_offset, file_contents, is_done) ==
    [op |-> op,
     gen_dirs |-> gen_dirs,
     dispatched |-> (file_objs # <<>>),
     target_dir |-> target_dir,
     file_objs |-> file_objs,
     num_dirs |-> num_dirs,
     file_offset |-> file_offset,
     file_contents |-> file_contents,
     num_files |-> Len(file_objs),
     done |-> is_done,
     handed_back |-> IF file_objs # <<>> THEN {} ELSE {target_dir},
     byte_counts_pool |-> "untouched"]

queue(op, target_dir, gen_dirs, file_objs, num_dirs, file_offset, file_contents, is_done) ==
    [op |-> op,
     gen_dirs |-> gen_dirs,
     dispatched |-> (file_objs # <<>> \/ num_dirs > 0),
     target_dir |-> target_dir,
     file_objs |-> file_objs,
     num_dirs |-> num_dirs,
     file_offset |-> file_offset,
     file_contents |-> file_contents,
     num_files |-> Len(file_objs),
     done |-> is_done,
     handed_back |-> IF file_objs # <<>> \/ num_dirs > 0 THEN {} ELSE {target_dir},
     byte_counts_pool |-> "untouched"]

\* the call returned Err(NothingToDo) before building any task
NothingToDo(op, target_dir) ==
    [op |-> op, gen_dirs |-> FALSE, dispatched |-> FALSE, target_dir |-> target_dir,
     file_objs |-> <<>>, num_dirs |-> 0, file_offset |-> 0,
     file_contents |-> NoContents, num_files |-> 0, done |-> FALSE,
     handed_back |-> {target_dir}, byte_counts_pool |-> "untouched"]

(***************************************************************************)
(* dirs_to_gen (tasks.rs): the set of values the call can return.          *)
(***************************************************************************)
\* the values sample_truncated(num_dirs_distr) may yield in the current state
DirSamples == 0..Max(0, lim.dirs - DirsSoFar)

\* a dirs_to_gen that samples whatever gen_dirs says
dirs_to_gen_any_depth(files_created, gen_dirs) ==
    {IF files_created > 0 /\ dirs = 0 THEN 1 ELSE dirs : dirs \in DirSamples}

\* a dirs_to_gen that reports the sample as it is
dirs_to_gen_unforced(files_created, gen_dirs) == IF gen_dirs THEN DirSamples ELSE {0}

dirs_to_gen(files_created, gen_dirs) ==
    IF gen_dirs
    THEN {IF files_created > 0 /\ dirs = 0 THEN 1 ELSE dirs : dirs \in DirSamples}
    ELSE {0}

(***************************************************************************)
(* Byte-count assignment of the static generator in bytes-exact mode       *)
(* (tasks.rs, queue_gen_internal, "1. Handle Primary Files").              *)
(***************************************************************************)
\* the values sample_truncated(num_bytes_distr) may yield
ByteSamples == {0, 1, MaxExactBytes}

\* a sampling that subtracts the sample without clamping it to the budget
RECURSIVE SampleBytesUnclamped(_, _, _)
SampleBytesUnclamped(counts, n, budget) ==
    IF n = 0 THEN {[counts |-> counts, bytes |-> budget]}
    ELSE UNION { SampleBytesUnclamped(Append(counts, s), n - 1, budget - s)
                 : s \in ByteSamples }

\* num_bytes = min(*bytes, sample); *bytes -= num_bytes; for each primary
RECURSIVE SampleBytes(_, _, _)
SampleBytes(counts, n, budget) ==
    IF n = 0 THEN {[counts |-> counts, bytes |-> budget]}
    ELSE UNION { SampleBytes(Append(counts, Min(budget, s)), n - 1, budget - Min(budget, s))
                 : s \in ByteSamples }

\* a spread that gives the base to everyone and drops the remainder
SpreadBaseOnly(counts, budget, num_files) ==
    [i \in 1..Len(counts) |-> counts[i] + (budget \div num_files)]

\* "Spread leftovers if done": base to everyone, one more to the first few
SpreadLeftovers(counts, budget, num_files) ==
    LET base == budget \div num_files
        leftovers == budget % num_files
    IN  [i \in 1..Len(counts) |-> counts[i] + base + (IF i <= leftovers THEN 1 ELSE 0)]

PrimaryByteCounts(num_files, budget, is_done) ==
    IF num_files > 0 /\ budget > 0
    THEN {[counts |-> IF is_done THEN SpreadLeftovers(o.counts, o.bytes, num_files)
                      ELSE o.counts,
           bytes |-> o.bytes] : o \in SampleBytes(<<>>, num_files, budget)}
    ELSE {[counts |-> <<>>, bytes |-> budget]}

(***************************************************************************)
(* StaticGenerator::queue_gen_internal (tasks.rs): the set of results      *)
(* [call, random, bytes_exact, pending] of one call in the current state.  *)
(***************************************************************************)
\* the size vector popped from byte_counts_pool is moved into the task's
\* contents generator
Moved(call) == [call EXCEPT !.byte_counts_pool = "moved"]

\* byte_counts.clear(); byte_counts_pool.push(byte_counts)
Recycled(call) == [call EXCEPT !.byte_counts_pool = "pushed"]

InternalExactBytes(op, file, gen_dirs, specs, num_files, num_dirs, offset, is_done, rnd) ==
    LET sampled == num_files > 0 /\ bytes_exact > 0
        rnd2 == rnd + (IF sampled THEN num_files ELSE 0)
    IN  UNION {
          LET dupd == IF num_files > 0 /\ p.bytes > 0
                      THEN add_duplicates_to_specs_and_buffer(
                               specs, TRUE, p.counts, pending_duplicates,
                               duplicate_percentage, max_duplicates_per_file, permissions,
                               DupRoom)
                      ELSE {[specs |-> specs, sizes |-> p.counts,
                             pending |-> pending_duplicates]}
          IN  { LET limit == DrainLimit(is_done, Len(a.pending), num_files)
                    st == DrainPending(a, Min(Len(a.pending), limit), TRUE)
                IN  IF st.sizes # <<>> \/ (num_files > 0 /\ p.bytes > 0)
                    THEN [call |-> Moved(queue(op, file, gen_dirs, st.specs, num_dirs,
                                               offset, PreDefined(st.sizes), is_done)),
                          random |-> rnd2 + 1,
                          bytes_exact |-> p.bytes,
                          pending |-> st.pending]
                    ELSE [call |-> Recycled(queue(op, file, gen_dirs, st.specs, num_dirs,
                                                  offset, NoContents, is_done)),
                          random |-> rnd2,
                          bytes_exact |-> p.bytes,
                          pending |-> st.pending]
                : a \in dupd }
          : p \in PrimaryByteCounts(num_files, bytes_exact, is_done) }

InternalOnTheFly(op, file, gen_dirs, specs, num_files, num_dirs, offset, is_done, rnd) ==
    LET dupd == IF num_files > 0
                THEN add_duplicates_to_specs_and_buffer(
                         specs, FALSE, <<>>, pending_duplicates,
                         duplicate_percentage, max_duplicates_per_file, permissions,
                               DupRoom)
                ELSE {[specs |-> specs, sizes |-> <<>>, pending |-> pending_duplicates]}
    IN  { LET limit == DrainLimit(is_done, Len(a.pending), num_files)
              st == DrainPending(a, Min(Len(a.pending), limit), FALSE)
          IN  [call |-> queue(op, file, gen_dirs, st.specs, num_dirs, offset,
                               OnTheFly, is_done),
               random |-> rnd + 1,
               bytes_exact |-> bytes_exact,
               pending |-> st.pending]
          : a \in dupd }

queue_gen_internal(op, file, gen_dirs, num_files, num_dirs, offset, is_done, rnd) ==
    LET specs == generate_primary_specs(num_files, rnd, permissions)
        rnd1 == rnd + num_files
    IN  IF bytes
        THEN IF bytes_exact # None
             THEN InternalExactBytes(op, file, gen_dirs, specs, num_files, num_dirs,
                                     offset, is_done, rnd1)
             ELSE InternalOnTheFly(op, file, gen_dirs, specs, num_files, num_dirs,
                                   offset, is_done, rnd1)
        ELSE {[call |-> queue(op, file, gen_dirs, specs, num_dirs, offset,
                              NoContents, is_done),
               random |-> rnd1,
               bytes_exact |-> bytes_exact,
               pending |-> pending_duplicates]}

(***************************************************************************)
(* The tree scheduler: a depth-first walk. A frame is a directory whose    *)
(* batch reported `total` subdirectories, `next` of which were visited.    *)
(***************************************************************************)
RECURSIVE Unwind(_)
Unwind(st) ==
    IF st # <<>> /\ st[Len(st)].next = st[Len(st)].total
    THEN Unwind(SubSeq(st, 1, Len(st) - 1))
    ELSE st

\* the directory the next queue_gen call is made for
NextCwd ==
    IF phase = "root" THEN <<>>
    ELSE stack[Len(stack)].dir \o <<stack[Len(stack)].next>>

\* may_gen_dirs of the next call: the directory's depth is below max_depth
MayGenDirs == Len(NextCwd) < max_depth

\* a walk that goes on to the remaining siblings after a done batch
AfterVisitKeepsWalking(call) ==
    LET base == IF phase = "root" THEN <<>>
                ELSE [stack EXCEPT ![Len(stack)].next = @ + 1]
        pushed == IF call.dispatched /\ call.num_dirs > 0
                  THEN Append(base, [dir |-> call.target_dir, next |-> 0,
                                     total |-> call.num_dirs])
                  ELSE base
        rest == Unwind(pushed)
    IN  [stack |-> rest,
         phase |-> IF rest = <<>> THEN "final" ELSE "walk"]

\* scheduler state after a queue_gen call returned `call`
AfterVisit(call) ==
    LET base == IF phase = "root" THEN <<>>
                ELSE [stack EXCEPT ![Len(stack)].next = @ + 1]
        pushed == IF call.dispatched /\ call.num_dirs > 0
                  THEN Append(base, [dir |-> call.target_dir, next |-> 0,
                                     total |-> call.num_dirs])
                  ELSE base
        rest == Unwind(pushed)
        stop == call.done \/ rest = <<>>
    IN  [stack |-> IF stop THEN <<>> ELSE rest,
         phase |-> IF stop THEN "final" ELSE "walk"]

\* the materializations of a generator's output that are followed
Runs == {1, 2}

(***************************************************************************)
(* The command line (main.rs) and the configuration file (config.rs).      *)
(* An Option<bool> of the configuration is a set of at most one boolean.   *)
(***************************************************************************)
\* the fields of Generate that are Options, and its SetTrue flags
OptionFields ==
    {"num_files", "num_bytes", "fill_byte", "max_depth", "file_to_dir_ratio",
     "audit_output", "seed", "duplicate_percentage", "max_duplicates_per_file"}
FlagFields == {"files_exact", "bytes_exact", "exact"}

\* the keys of Config that are numbers or paths (its booleans are FlagFields)
ConfigKeys ==
    {"files", "total_bytes", "fill_byte", "max_depth", "ftd_ratio", "audit_output",
     "seed", "duplicate_percentage", "max_duplicates_per_file"}

\* Ftzz::parse(): the options of a command line that gives the fields of
\* `given`
Parsed(given) ==
    [f \in OptionFields \cup FlagFields |->
        IF f \in FlagFields THEN f \in given
        ELSE IF f \in given THEN CliValue ELSE None]

\* toml::from_str: the Config of a file that has the keys of `given`, its
\* booleans set to `flag`
Deserialized(given, flag) ==
    [k \in ConfigKeys \cup FlagFields |->
        IF k \in FlagFields THEN (IF k \in given THEN {flag} ELSE {})
        ELSE IF k \in given THEN ConfigValue ELSE None]

\* Option<bool>::unwrap_or
unwrap_or(option, default) == IF option = {} THEN default ELSE CHOOSE b \in option : TRUE

\* a merge in which the configuration file overrides the command line
merge_config_first(self, config) ==
    [num_files |-> IF config.files # None THEN config.files ELSE self.num_files,
     files_exact |-> unwrap_or(config.files_exact, self.files_exact),
     num_bytes |-> IF config.total_bytes # None THEN config.total_bytes ELSE self.num_bytes,
     fill_byte |-> IF config.fill_byte # None THEN config.fill_byte ELSE self.fill_byte,
     bytes_exact |-> unwrap_or(config.bytes_exact, self.bytes_exact),
     exact |-> unwrap_or(config.exact, self.exact),
     max_depth |-> IF config.max_depth # None THEN config.max_depth ELSE self.max_depth,
     file_to_dir_ratio |->
        IF config.ftd_ratio # None THEN config.ftd_ratio ELSE self.file_to_dir_ratio,
     seed |-> IF config.seed # None THEN config.seed ELSE self.seed,
     audit_output |->
        IF config.audit_output # None THEN config.audit_output ELSE self.audit_output,
     duplicate_percentage |->
        IF config.duplicate_percentage # None THEN config.duplicate_percentage
        ELSE self.duplicate_percentage,
     max_duplicates_per_file |->
        IF config.max_duplicates_per_file # None THEN config.max_duplicates_per_file
        ELSE self.max_duplicates_per_file]

\* Generate::merge
merge(self, config) ==
    [num_files |-> IF self.num_files = None THEN config.files ELSE self.num_files,
     files_exact |->
        IF ~self.files_exact THEN unwrap_or(config.files_exact, FALSE)
        ELSE self.files_exact,
     num_bytes |-> IF self.num_bytes = None THEN config.total_bytes ELSE self.num_bytes,
     fill_byte |-> IF self.fill_byte = None THEN config.fill_byte ELSE self.fill_byte,
     bytes_exact |->
        IF ~self.bytes_exact THEN unwrap_or(config.bytes_exact, FALSE)
        ELSE self.bytes_exact,
     exact |-> IF ~self.exact THEN unwrap_or(config.exact, FALSE) ELSE self.exact,
     max_depth |-> IF self.max_depth = None THEN config.max_depth ELSE self.max_depth,
     file_to_dir_ratio |->
        IF self.file_to_dir_ratio = None THEN config.ftd_ratio
        ELSE self.file_to_dir_ratio,
     seed |-> IF self.seed = None THEN config.seed ELSE self.seed,
     audit_output |->
        IF self.audit_output = None THEN config.audit_output ELSE self.audit_output,
     duplicate_percentage |->
        IF self.duplicate_percentage = None THEN config.duplicate_percentage
        ELSE self.duplicate_percentage,
     max_duplicates_per_file |->
        IF self.max_duplicates_per_file = None THEN config.max_duplicates_per_file
        ELSE self.max_duplicates_per_file]

\* the process after Ftzz::parse(): `file` is what --config names, if given;
\* ratio_ok is what NumFilesWithRatio::new will answer for a given ratio
Invoked(args, file, ratio_ok) ==
    [args |-> args, options |-> args, config_file |-> file, ratio_ok |-> ratio_ok,
     at |-> "config", exit |-> "running", error |-> "none"]

\* --config was not given
NoConfigFile ==
    [given |-> FALSE, readable |-> FALSE, parsable |-> FALSE,
     config |-> Deserialized({}, FALSE)]

\* the process once Generator::try_from has returned Ok
Accepted ==
    [Invoked(Parsed({"num_files"}), NoConfigFile, TRUE) EXCEPT !.at = "generate"]

\* ftzz() has built the generator and is inside generate()
Generating == cli.at = "generate"

\* a main that reports the error and goes on to run the generator
RejectedAndRun(error) == [cli EXCEPT !.at = "generate", !.exit = "failure", !.error = error]

\* ftzz() returns Err(report): main prints it and ends with err.report()
Rejected(error) == [cli EXCEPT !.at = "exit", !.exit = "failure", !.error = error]

(***************************************************************************)
(* Initial state: a generator as constructed for one run.                  *)
(* DynamicGenerator has no exact targets; StaticGenerator::new requires    *)
(* files_exact or bytes_exact, and a byte target implies a byte config.    *)
(***************************************************************************)
InitGenerator(kinds, file_targets, byte_targets, dup_maxima, depths, limits, caps, audits) ==
    /\ kind \in kinds
    /\ random = 0
    /\ files_exact \in file_targets
    /\ bytes_exact \in byte_targets
    /\ bytes \in BOOLEAN
    /\ kind = "dynamic" => files_exact = None /\ bytes_exact = None
    /\ kind = "static" => files_exact # None \/ bytes_exact # None
    /\ bytes_exact # None => bytes
    /\ done = FALSE
    /\ root_num_files_hack = None
    /\ pending_duplicates = <<>>
    /\ duplicate_percentage \in DupPercentages
    /\ max_duplicates_per_file \in dup_maxima
    /\ permissions \in Palettes
    /\ max_depth \in depths
    /\ stack = <<>>
    /\ phase = "root"
    /\ calls = <<>>
    /\ requested = [files |-> files_exact, bytes |-> bytes_exact]
    /\ lim = limits
    /\ max_tasks \in caps
    /\ workers = [r \in Runs |-> <<>>]
    /\ fs_dirs = [r \in Runs |-> {<<>>}]
    /\ fs_files = [r \in Runs |-> <<>>]
    /\ audit_trail \in audits

\* runs whose command line was accepted: ftzz() has reached generate()
InitAudited(kinds, file_targets, byte_targets, dup_maxima, depths, limits, caps, audits) ==
    /\ InitGenerator(kinds, file_targets, byte_targets, dup_maxima, depths, limits, caps,
                     audits)
    /\ cli = Accepted

\* runs without an audit trail
InitCapped(kinds, file_targets, byte_targets, dup_maxima, depths, limits, caps) ==
    /\ InitAudited(kinds, file_targets, byte_targets, dup_maxima, depths, limits, caps,
                   {FALSE})
    /\ audit = [r \in Runs |-> <<>>]

\* runs whose cap on outstanding tasks is never reached
InitWith(kinds, file_targets, byte_targets, dup_maxima, depths, limits) ==
    InitCapped(kinds, file_targets, byte_targets, dup_maxima, depths, limits,
               {UncappedTasks})

Init ==
    InitWith({"dynamic", "static"}, {None} \cup 1..MaxExactFiles,
             {None} \cup 1..MaxExactBytes, 1..MaxDups, 0..MaxDepth,
             [files |-> MaxTotalFiles, dirs |-> MaxTotalDirs, dups |-> MaxTotalDups])

\* runs with a byte target only (or no target) and many copies per original
InitDrain ==
    InitWith({"dynamic", "static"}, {None}, {None, MaxExactBytes}, {DrainMaxDups},
             0..MaxDepth,
             [files |-> MaxExactFiles, dirs |-> MaxDepth, dups |-> DrainTotalDups])

\* runs with both exact targets and enough files, bytes and copies for the
\* byte budget to run out while duplicates are still pending
InitMisalign ==
    /\ InitWith({"dynamic", "static"}, {None, MisalignTarget}, {None, MisalignTarget},
                {DrainMaxDups}, {MaxDepth},
                [files |-> MisalignTarget, dirs |-> MaxDepth, dups |-> MisalignTarget])
    /\ duplicate_percentage = 100
    /\ permissions = <<>>
    /\ kind = "static" => files_exact # None /\ bytes_exact # None

Walking == phase \in {"root", "walk"}

\* tasks dispatched and not yet completed (in the first materialization)
Outstanding ==
    Cardinality({i \in 1..Len(calls) :
                    /\ calls[i].dispatched
                    /\ (i \in DOMAIN workers[1] => workers[1][i].status = "run")})

\* a scheduler that never waits for a completion
BelowCapOrNot(outstanding, cap) == TRUE

\* the scheduler awaits a completion before a dispatch would exceed the cap
BelowCap(outstanding, cap) == outstanding < cap

\* the scheduler makes its next call to the generator
MayCall == Generating /\ BelowCap(Outstanding, max_tasks)

(***************************************************************************)
(* DynamicGenerator::queue_gen, called by the walk for the next directory. *)
(***************************************************************************)
\* a duplicate insertion that runs without a byte configuration too
DuplicatesAlways(has_bytes) == TRUE

\* if bytes.is_some() { add_duplicates_to_specs_and_buffer(..); .. }
DuplicatesEnabled(has_bytes) == has_bytes

DynamicQueueGen ==
    /\ kind = "dynamic"
    /\ Walking
    /\ MayCall
    /\ \E num_files \in FileSamples :
       \E num_dirs \in dirs_to_gen(num_files, MayGenDirs) :
         LET rnd == random + 1 + (IF MayGenDirs THEN 1 ELSE 0)
             specs == generate_primary_specs(num_files, rnd, permissions)
             dupd == IF DuplicatesEnabled(bytes)
                     THEN add_duplicates_to_specs_and_buffer(
                              specs, FALSE, <<>>, pending_duplicates,
                              duplicate_percentage, max_duplicates_per_file, permissions,
                               DupRoom)
                     ELSE {[specs |-> specs, sizes |-> <<>>,
                            pending |-> pending_duplicates]}
         IN  \E a \in dupd :
               LET limit == DrainLimit(FALSE, Len(a.pending), num_files)
                   st == IF bytes
                         THEN DrainPending(a, Min(Len(a.pending), limit), FALSE)
                         ELSE a
                   call == queue("queue_gen", NextCwd, MayGenDirs, st.specs, num_dirs, 0,
                                 IF bytes THEN OnTheFly ELSE NoContents, FALSE)
                   sched == AfterVisit(call)
               IN  /\ random' = rnd + num_files + (IF bytes THEN 1 ELSE 0)
                   /\ pending_duplicates' = st.pending
                   /\ calls' = Append(calls, call)
                   /\ stack' = sched.stack
                   /\ phase' = sched.phase
    /\ UNCHANGED <<kind, files_exact, bytes_exact, done, root_num_files_hack, bytes,
                   duplicate_percentage, max_duplicates_per_file, permissions, max_depth,
                   requested, lim, max_tasks, matVars>>

(***************************************************************************)
(* DynamicGenerator::maybe_queue_final_gen, called after the walk until it *)
(* returns NothingToDo.                                                    *)
(***************************************************************************)
DynamicFinalGen ==
    /\ kind = "dynamic"
    /\ phase = "final"
    /\ MayCall
    /\ IF pending_duplicates = <<>>
       THEN /\ calls' = Append(calls, NothingToDo("final", <<>>))
            /\ phase' = "end"
            /\ UNCHANGED <<random, pending_duplicates>>
       ELSE LET st == DrainPending([specs |-> <<>>, sizes |-> <<>>,
                                    pending |-> pending_duplicates],
                                   Len(pending_duplicates), FALSE)
                call == queue("final", <<>>, FALSE, st.specs, 0, 0,
                              IF bytes THEN OnTheFly ELSE NoContents, TRUE)
            IN  /\ calls' = Append(calls, call)
                /\ pending_duplicates' = st.pending
                /\ random' = random + (IF bytes THEN 1 ELSE 0)
                /\ phase' = "final"
    /\ UNCHANGED <<kind, files_exact, bytes_exact, done, root_num_files_hack, bytes,
                   duplicate_percentage, max_duplicates_per_file, permissions,
                   max_depth, stack, requested, lim, max_tasks, matVars>>

(***************************************************************************)
(* StaticGenerator::queue_gen.                                             *)
(***************************************************************************)
\* a clamp that only acts on a sample above the remaining budget
ClampFilesAbove(sample, files, is_done) ==
    IF files # None
    THEN IF sample > files
         THEN [num_files |-> files, files_exact |-> files, done |-> TRUE]
         ELSE [num_files |-> sample, files_exact |-> files - sample, done |-> is_done]
    ELSE [num_files |-> sample, files_exact |-> files, done |-> is_done]

\* a clamp that never subtracts the batch from the remaining budget
ClampFilesKeepsBudget(sample, files, is_done) ==
    IF files # None
    THEN IF sample >= files
         THEN [num_files |-> files, files_exact |-> files, done |-> TRUE]
         ELSE [num_files |-> sample, files_exact |-> files, done |-> is_done]
    ELSE [num_files |-> sample, files_exact |-> files, done |-> is_done]

\* the clamp of the sampled file count against the remaining file budget
ClampFiles(sample, files, is_done) ==
    IF files # None
    THEN IF sample >= files
         THEN [num_files |-> files, files_exact |-> files, done |-> TRUE]
         ELSE [num_files |-> sample, files_exact |-> files - sample, done |-> is_done]
    ELSE [num_files |-> sample, files_exact |-> files, done |-> is_done]

\* a directory count that is sampled whatever the done flag says
StaticNumDirsSampled(is_done, num_files, gen_dirs) == dirs_to_gen(num_files, gen_dirs)

\* let num_dirs = if *done { 0 } else { dirs_to_gen(..) }
StaticNumDirs(is_done, num_files, gen_dirs) ==
    IF is_done THEN {0} ELSE dirs_to_gen(num_files, gen_dirs)

StaticQueueGen ==
    /\ kind = "static"
    /\ Walking
    /\ MayCall
    /\ \E sample \in FileSamples :
         LET c == ClampFiles(sample, files_exact, done)
             dirs == StaticNumDirs(c.done, c.num_files, MayGenDirs)
             rnd == random + 1 + (IF ~c.done /\ MayGenDirs THEN 1 ELSE 0)
         IN  \E num_dirs \in dirs :
             \E o \in queue_gen_internal("queue_gen", NextCwd, MayGenDirs, c.num_files,
                                         num_dirs, 0, c.done, rnd) :
               LET sched == AfterVisit(o.call)
               IN  /\ files_exact' = c.files_exact
                   /\ done' = c.done
                   /\ root_num_files_hack' = IF root_num_files_hack = None
                                             THEN c.num_files
                                             ELSE root_num_files_hack
                   /\ random' = o.random
                   /\ bytes_exact' = o.bytes_exact
                   /\ pending_duplicates' = o.pending
                   /\ calls' = Append(calls, o.call)
                   /\ stack' = sched.stack
                   /\ phase' = sched.phase
    /\ UNCHANGED <<kind, bytes, duplicate_percentage, max_duplicates_per_file,
                   permissions, max_depth, requested, lim, max_tasks, matVars>>

(***************************************************************************)
(* StaticGenerator::maybe_queue_final_gen.                                 *)
(***************************************************************************)
\* self.root_num_files_hack.unwrap_or(0)
FinalOffset(hack) == IF hack = None THEN 0 ELSE hack

\* a final batch of a single file whatever the file budget
FinalNumFilesOne(files) == 1

\* the primaries of the final batch: the outstanding file budget, or the one
\* catch-up file of a run with a byte budget only
FinalNumFiles(files) == IF files # None THEN files ELSE 1

\* a final call that leaves the done flag as it found it
FinalDoneKept(d) == d

\* self.done = true, before the final batch is built
FinalDone(d) == TRUE

StaticFinalGen ==
    /\ kind = "static"
    /\ phase = "final"
    /\ MayCall
    /\ IF done
       THEN /\ calls' = Append(calls, NothingToDo("final", <<>>))
            /\ phase' = "end"
            /\ UNCHANGED <<done, random, bytes_exact, pending_duplicates>>
       ELSE /\ done' = FinalDone(done)
            /\ IF files_exact # None \/ (bytes_exact # None /\ bytes_exact > 0)
               THEN \E o \in queue_gen_internal(
                                 "final", <<>>, FALSE,
                                 FinalNumFiles(files_exact),
                                 0, FinalOffset(root_num_files_hack), TRUE, random) :
                      /\ calls' = Append(calls, o.call)
                      /\ random' = o.random
                      /\ bytes_exact' = o.bytes_exact
                      /\ pending_duplicates' = o.pending
                      /\ phase' = IF o.call.dispatched THEN "final" ELSE "end"
               ELSE /\ calls' = Append(calls, NothingToDo("final", <<>>))
                    /\ phase' = "end"
                    /\ UNCHANGED <<random, bytes_exact, pending_duplicates>>
    /\ UNCHANGED <<kind, files_exact, root_num_files_hack, bytes, duplicate_percentage,
                   max_duplicates_per_file, permissions, max_depth, stack,
                   requested, lim, max_tasks, matVars>>

Next ==
    \/ DynamicQueueGen
    \/ DynamicFinalGen
    \/ StaticQueueGen
    \/ StaticFinalGen

Spec == Init /\ [][Next]_vars
SpecDrain == InitDrain /\ [][Next]_vars

(***************************************************************************)
(* The content writers (file_contents.rs). A file is the record            *)
(* [seed, size, mode]: its bytes are the stream of the RNG seeded with     *)
(* `seed`, cut at `size`.                                                  *)
(***************************************************************************)
\* sample_truncated(num_bytes_distr, Xoshiro256PlusPlus::seed_from_u64(seed)):
\* a fixed function of the seed
OnTheFlySize(seed) == seed % 2

FileOf(spec, size) == [seed |-> spec.seed, size |-> size, mode |-> spec.permission]

\* audit_trail.is_some().then_some(0): the Option as a set of at most one seed
hash_seed == IF audit_trail THEN {0} ELSE {}

\* File::create(path) followed by write_bytes: truncates an existing file;
\* write_bytes returns a digest when it is given a hash seed
FileCreate(dirs, files, dir, name, spec, num_bytes) ==
    IF dir \notin dirs
    THEN [res |-> "notfound", bytes |-> 0, file |-> FileOf(spec, 0), hashed |-> FALSE]
    ELSE [res |-> "ok", bytes |-> num_bytes, file |-> FileOf(spec, num_bytes),
          hashed |-> (hash_seed # {})]

\* NoGeneratedFileContents::create_file: mknodat fails on an existing path
NoGeneratedCreate(dirs, files, dir, name, spec) ==
    IF dir \notin dirs
    THEN [res |-> "notfound", bytes |-> 0, file |-> FileOf(spec, 0), hashed |-> FALSE]
    ELSE IF <<dir, name>> \in DOMAIN files
    THEN [res |-> "exists", bytes |-> 0, file |-> FileOf(spec, 0), hashed |-> FALSE]
    ELSE [res |-> "ok", bytes |-> 0, file |-> FileOf(spec, 0), hashed |-> FALSE]

OnTheFlyCreate(dirs, files, dir, name, spec, retryable) ==
    LET num_bytes == OnTheFlySize(spec.seed)
    IN  IF num_bytes > 0 \/ retryable
        THEN FileCreate(dirs, files, dir, name, spec, num_bytes)
        ELSE NoGeneratedCreate(dirs, files, dir, name, spec)

\* byte_counts[file_num] panics when file_num is out of bounds
PreDefinedCreate(dirs, files, dir, name, spec, byte_counts, file_num) ==
    IF file_num + 1 > Len(byte_counts)
    THEN [res |-> "panic", bytes |-> 0, file |-> FileOf(spec, 0), hashed |-> FALSE]
    ELSE LET num_bytes == byte_counts[file_num + 1]
         IN  IF num_bytes > 0
             THEN FileCreate(dirs, files, dir, name, spec, num_bytes)
             ELSE NoGeneratedCreate(dirs, files, dir, name, spec)

\* contents.create_file(path, file_num, retryable, ..., spec) of task t
create_file(dirs, files, t, name, file_num, retryable) ==
    LET spec == t.file_objs[file_num + 1]
    IN  CASE t.file_contents.kind = "none" ->
               NoGeneratedCreate(dirs, files, t.target_dir, name, spec)
          [] t.file_contents.kind = "onthefly" ->
               OnTheFlyCreate(dirs, files, t.target_dir, name, spec, retryable)
          [] t.file_contents.kind = "predefined" ->
               PreDefinedCreate(dirs, files, t.target_dir, name, spec,
                                t.file_contents.byte_counts, file_num)

(***************************************************************************)
(* The materializer (files.rs, create_files_and_dirs): one worker per      *)
(* dispatched task, one filesystem call per step.                          *)
(***************************************************************************)
(***************************************************************************)
(* AuditTrail (audit.rs).  A path is the directory it lies in and, for a   *)
(* file, the file's name; Option values are sets of at most one element.   *)
(***************************************************************************)
DirPath(dir) == [dir |-> dir, file |-> {}]
FilePath(dir, name) == [dir |-> dir, file |-> {name}]

\* the hash of the bytes written: they are a function of the seed and size
HashOf(file) == <<file.seed, file.size>>

\* AuditTrail::add_file pushes one entry at the end of the vector
add_file(entries, path, size, hash, is_duplicate, permission) ==
    Append(entries, [path |-> path, entry_type |-> "file", size |-> size,
                     hash |-> hash,
                     permissions |-> IF permission = None THEN 420 ELSE permission,
                     is_duplicate |-> is_duplicate])

\* AuditTrail::add_directory pushes one entry of size 0
add_directory(entries, path, permission) ==
    Append(entries, [path |-> path, entry_type |-> "directory", size |-> 0,
                     hash |-> {},
                     permissions |-> IF permission = None THEN 493 ELSE permission,
                     is_duplicate |-> FALSE])

\* Path::parent: Some(parent) as a one-element set, None at the top
Parent(path) ==
    IF path.file # {} THEN {DirPath(path.dir)}
    ELSE IF path.dir = <<>> THEN {}
    ELSE {DirPath(SubSeq(path.dir, 1, Len(path.dir) - 1))}

\* *dir_sizes.entry(parent).or_insert(0) += size
AddSize(dir_sizes, parent, size) ==
    IF parent \in DOMAIN dir_sizes
    THEN [dir_sizes EXCEPT ![parent] = @ + size]
    ELSE (parent :> size) @@ dir_sizes

\* a walk that stops at the directory holding the file
RECURSIVE WalkParentOnly(_, _, _)
WalkParentOnly(dir_sizes, current, size) ==
    IF current = {} THEN dir_sizes
    ELSE LET parent == CHOOSE q \in current : TRUE
         IN  AddSize(dir_sizes, parent, size)

\* while let Some(parent) = current: the size goes to every ancestor
RECURSIVE WalkParents(_, _, _)
WalkParents(dir_sizes, current, size) ==
    IF current = {} THEN dir_sizes
    ELSE LET parent == CHOOSE q \in current : TRUE
         IN  WalkParents(AddSize(dir_sizes, parent, size), Parent(parent), size)

\* the first loop of calculate_directory_sizes, over entries[k..]
RECURSIVE CollectSizes(_, _, _)
CollectSizes(entries, k, dir_sizes) ==
    IF k > Len(entries) THEN dir_sizes
    ELSE CollectSizes(entries, k + 1,
                      IF entries[k].entry_type = "file"
                      THEN WalkParents(dir_sizes, Parent(entries[k].path),
                                       entries[k].size)
                      ELSE dir_sizes)

\* AuditTrail::calculate_directory_sizes
calculate_directory_sizes(entries) ==
    LET dir_sizes == CollectSizes(entries, 1, <<>>)
    IN  [k \in 1..Len(entries) |->
            IF entries[k].entry_type = "directory" /\ entries[k].path \in DOMAIN dir_sizes
            THEN [entries[k] EXCEPT !.size = dir_sizes[entries[k].path]]
            ELSE entries[k]]

\* the header record write_csv writes first
CsvHeader == <<"path", "type", "size", "hash", "permissions", "owner", "is_duplicate">>

\* one record per entry: the columns in the order of the header; an absent
\* hash is the empty column, the owner is never set
CsvRow(entry) ==
    <<entry.path, entry.entry_type, entry.size, entry.hash,
      entry.permissions, "", IF entry.is_duplicate THEN "true" ELSE "false">>

\* the file write_csv emits: the header, then the entries in the order of the
\* vector
write_csv(entries) ==
    [header |-> CsvHeader, rows |-> [k \in 1..Len(entries) |-> CsvRow(entries[k])]]

TaskIds == {i \in 1..Len(calls) : calls[i].dispatched}

NewWorker ==
    [dirs |-> 0, tried |-> FALSE, next |-> 0, bytes_written |-> 0, status |-> "run",
     written |-> {}, dirs_made |-> {}, recovered |-> FALSE]

\* the worker of task i in materialization r
W(r, i) == IF i \in DOMAIN workers[r] THEN workers[r][i] ELSE NewWorker

\* create_files_and_dirs returns Ok once the directories and files are made
Settle(w, t) ==
    IF /\ w.status = "run"
       /\ w.dirs = t.num_dirs
       /\ (t.num_files = 0 \/ (w.tried /\ w.next = t.num_files))
    THEN [w EXCEPT !.status = "ok"]
    ELSE w

SetWorker(r, i, w) ==
    [workers EXCEPT ![r] = [j \in DOMAIN @ \cup {i} |-> IF j = i THEN w ELSE @[j]]]

\* create_dir_all(path) makes the path and every missing ancestor
create_dir_all(dirs, path) == dirs \cup {SubSeq(path, 1, k) : k \in 0..Len(path)}

\* a file name that leaves the task's offset out
FileNameNoOffset(offset, k) == k

\* name of the k-th file of a task: with_file_name(k + offset)
FileName(offset, k) == k + offset

\* create_dirs: the next create_dir_all(target_dir/<i>.dir)
CreateDir(r, i) ==
    /\ i \in TaskIds
    /\ LET t == calls[i]
           w == W(r, i)
       IN  /\ w.status = "run"
           /\ w.dirs < t.num_dirs
           /\ fs_dirs' = [fs_dirs EXCEPT
                            ![r] = create_dir_all(@, Append(t.target_dir, w.dirs))]
           /\ workers' = SetWorker(r, i, Settle([w EXCEPT !.dirs = @ + 1,
                                                          !.dirs_made = @ \cup {w.dirs}], t))
           /\ audit' = IF audit_trail
                       THEN [audit EXCEPT ![r] = add_directory(
                                @, DirPath(Append(t.target_dir, w.dirs)), None)]
                       ELSE audit
    /\ UNCHANGED <<genVars, schedVars, fs_files, audit_trail, cli>>

\* files may start while subdirectories are still to be made
DirsCreatedOrNot(w, t) == TRUE

\* create_dirs has returned: every subdirectory of the task is made
DirsCreated(w, t) == w.dirs = t.num_dirs

\* a byte count that keeps only the last file's size
AddBytesLast(bytes_written, num_bytes) == num_bytes

\* bytes_written += bytes
AddBytes(bytes_written, num_bytes) == bytes_written + num_bytes

\* a failure that is swallowed: the task goes on with the next file
FailedContinues(w, res) == [w EXCEPT !.tried = TRUE, !.next = @ + 1]

\* create_files returns Err (or the thread panics): the task ends there
Failed(w, res) ==
    [w EXCEPT !.tried = TRUE, !.status = IF res = "panic" THEN "panic" ELSE "err"]

\* if let Some(audit) = audit_trail { audit.add_file(path, bytes, hash) }
Audited(trail, r, t, name, file_num, o) ==
    IF audit_trail
    THEN [trail EXCEPT ![r] = add_file(@, FilePath(t.target_dir, name), o.bytes,
                                       IF o.hashed THEN {HashOf(o.file)} ELSE {},
                                       t.file_objs[file_num + 1].is_duplicate,
                                       t.file_objs[file_num + 1].permission)]
    ELSE trail

\* a NotFound recovery that moves on to the second file
AfterNotFoundSkipFirst(w) == [w EXCEPT !.tried = TRUE, !.recovered = TRUE, !.next = 1]

\* the worker after NotFound on the first file: start_file is left at 0
AfterNotFound(w) == [w EXCEPT !.tried = TRUE, !.recovered = TRUE]

\* create_files: the first file, created with retryable = true; on NotFound
\* the target directory is created and the loop starts over at file 0
FirstFile(r, i) ==
    /\ i \in TaskIds
    /\ LET t == calls[i]
           w == W(r, i)
           name == FileName(t.file_offset, 0)
           o == create_file(fs_dirs[r], fs_files[r], t, name, 0, TRUE)
       IN  /\ w.status = "run"
           /\ DirsCreated(w, t)
           /\ ~w.tried
           /\ t.num_files > 0
           /\ CASE o.res = "ok" ->
                     /\ fs_files' = [fs_files EXCEPT
                                       ![r] = (<<t.target_dir, name>> :> o.file) @@ @]
                     /\ workers' = SetWorker(r, i, Settle(
                            [w EXCEPT !.tried = TRUE, !.next = 1,
                                      !.bytes_written = AddBytes(@, o.bytes),
                                      !.written = @ \cup {[name |-> name, file |-> o.file]}], t))
                     /\ audit' = Audited(audit, r, t, name, 0, o)
                     /\ UNCHANGED fs_dirs
                [] o.res = "notfound" ->
                     /\ fs_dirs' = [fs_dirs EXCEPT ![r] = create_dir_all(@, t.target_dir)]
                     /\ workers' = SetWorker(r, i, Settle(AfterNotFound(w), t))
                     /\ UNCHANGED <<fs_files, audit>>
                [] OTHER ->
                     /\ workers' = SetWorker(r, i, Failed(w, o.res))
                     /\ UNCHANGED <<fs_dirs, fs_files, audit>>
    /\ UNCHANGED <<genVars, schedVars, audit_trail, cli>>

\* create_files: the loop over start_file..num_files, retryable = false
NextFile(r, i) ==
    /\ i \in TaskIds
    /\ LET t == calls[i]
           w == W(r, i)
           name == FileName(t.file_offset, w.next)
           o == create_file(fs_dirs[r], fs_files[r], t, name, w.next, FALSE)
       IN  /\ w.status = "run"
           /\ w.tried
           /\ w.next < t.num_files
           /\ IF o.res = "ok"
              THEN /\ fs_files' = [fs_files EXCEPT
                                     ![r] = (<<t.target_dir, name>> :> o.file) @@ @]
                   /\ workers' = SetWorker(r, i, Settle(
                          [w EXCEPT !.next = @ + 1,
                                    !.bytes_written = AddBytes(@, o.bytes),
                                    !.written = @ \cup {[name |-> name, file |-> o.file]}], t))
                   /\ audit' = Audited(audit, r, t, name, w.next, o)
              ELSE /\ workers' = SetWorker(r, i, Failed(w, o.res))
                   /\ UNCHANGED <<fs_files, audit>>
    /\ UNCHANGED <<genVars, schedVars, fs_dirs, audit_trail, cli>>

\* a generator that keeps its size vector to itself
byte_counts_pool_return_none(file_contents) == {}

\* FileContentsGenerator::byte_counts_pool_return: only the pre-defined
\* generator owns a size vector; the Option is a set of at most one vector
byte_counts_pool_return(file_contents) ==
    IF file_contents.kind = "predefined" THEN {file_contents.byte_counts} ELSE {}

\* the GeneratorTaskOutcome of task i in materialization r, once it is Ok
Outcome(r, i) ==
    [files_generated |-> calls[i].num_files,
     dirs_generated |-> calls[i].num_dirs,
     bytes_generated |-> W(r, i).bytes_written,
     pool_return_file |-> calls[i].target_dir,
     pool_return_byte_counts |-> byte_counts_pool_return(calls[i].file_contents)]

\* runs whose tasks are materialized
InitRun ==
    InitWith({"dynamic", "static"}, {None, RunExactFiles}, {None, RunExactBytes},
             {2}, 0..MaxDepth,
             [files |-> RunTotalFiles, dirs |-> RunTotalDirs, dups |-> RunTotalDups])

\* in SpecRun the second materialization never starts
RunCreateDir == \E i \in 1..Len(calls) : CreateDir(1, i)
RunFirstFile == \E i \in 1..Len(calls) : FirstFile(1, i)
RunNextFile == \E i \in 1..Len(calls) : NextFile(1, i)

NextRun ==
    \/ DynamicQueueGen
    \/ DynamicFinalGen
    \/ StaticQueueGen
    \/ StaticFinalGen
    \/ RunCreateDir
    \/ RunFirstFile
    \/ RunNextFile

SpecRun == InitRun /\ [][NextRun]_vars

\* the runs of SpecRun that have no permission palette
InitTasks == InitRun /\ permissions = <<>>

SpecTasks == InitTasks /\ [][NextRun]_vars

\* the generator's calls alone, in runs where the RNG may select one more
\* duplicate than in SpecRun
InitWalk ==
    InitWith({"dynamic", "static"}, {None, RunExactFiles}, {None, RunExactBytes},
             {2}, 0..MaxDepth,
             [files |-> RunTotalFiles, dirs |-> RunTotalDirs, dups |-> RunTotalDups + 1])

SpecWalk == InitWalk /\ [][Next]_vars

\* runs whose cap on outstanding tasks is small enough to be reached; the RNG
\* selects no duplicates in these runs
InitCap ==
    InitCapped({"dynamic", "static"}, {None, RunExactFiles}, {None, RunExactBytes},
               {2}, 0..MaxDepth,
               [files |-> RunTotalFiles, dirs |-> RunTotalDirs, dups |-> 0],
               {CapTasks})

SpecCap == InitCap /\ [][NextRun]_vars
SpecMisalign == InitMisalign /\ [][NextRun]_vars

PairCreateDir == \E r \in Runs : \E i \in 1..Len(calls) : CreateDir(r, i)
PairFirstFile == \E r \in Runs : \E i \in 1..Len(calls) : FirstFile(r, i)
PairNextFile == \E r \in Runs : \E i \in 1..Len(calls) : NextFile(r, i)

NextPair ==
    \/ DynamicQueueGen
    \/ DynamicFinalGen
    \/ StaticQueueGen
    \/ StaticFinalGen
    \/ PairCreateDir
    \/ PairFirstFile
    \/ PairNextFile

SpecPair == InitRun /\ [][NextPair]_vars

\* two materializations of runs that keep an audit trail; the RNG selects no
\* duplicates in these runs
InitAudit ==
    /\ InitAudited({"dynamic", "static"}, {None, RunExactFiles}, {None, RunExactBytes},
                   {2}, 0..MaxDepth,
                   [files |-> RunTotalFiles, dirs |-> RunTotalDirs, dups |-> 0],
                   {UncappedTasks}, {TRUE})
    /\ audit = [r \in Runs |-> <<>>]

SpecAudit == InitAudit /\ [][NextPair]_vars

(***************************************************************************)
(* calculate_directory_sizes applied to audit trails drawn from a bounded  *)
(* set: every sequence of at most MaxEntries add_directory / add_file      *)
(* calls over a tree of depth two.                                         *)
(***************************************************************************)
EntryDirs == {<<0>>, <<0, 0>>, <<1>>}
EntrySizes == {1, MaxEntrySize}

RECURSIVE Trails(_)
Trails(n) ==
    IF n = 0 THEN {<<>>}
    ELSE LET shorter == Trails(n - 1)
         IN  shorter
             \cup {add_directory(e, DirPath(d), None) : e \in shorter, d \in EntryDirs}
             \cup {add_file(e, FilePath(d, 0), size, {}, FALSE, None) :
                      e \in shorter, d \in EntryDirs \cup {<<>>}, size \in EntrySizes}

InitSizes ==
    /\ InitAudited({"dynamic"}, {None}, {None}, {0}, {MaxDepth},
                   [files |-> 0, dirs |-> 0, dups |-> 0], {UncappedTasks}, {TRUE})
    /\ ~bytes /\ duplicate_percentage = 0 /\ permissions = <<>>
    /\ \E trail \in Trails(MaxEntries) :
         audit = [r \in Runs |-> IF r = 1 THEN trail ELSE <<>>]

\* the roll-up of the directory sizes of the first trail
CalculateDirectorySizes ==
    /\ audit_trail
    /\ phase # "audited"
    /\ audit' = [audit EXCEPT ![1] = calculate_directory_sizes(@)]
    /\ phase' = "audited"
    /\ UNCHANGED <<genVars, max_depth, stack, calls, requested, lim, max_tasks,
                   workers, fs_dirs, fs_files, audit_trail, cli>>

NextSizes == CalculateDirectorySizes

SpecSizes == InitSizes /\ [][NextSizes]_vars

\* the audit output of materialization r: the directory sizes are rolled up
\* and the entries written in the order of the vector
AuditOutput(r) == write_csv(calculate_directory_sizes(audit[r]))

(***************************************************************************)
(* Observations on the log of calls.                                       *)
(***************************************************************************)
Tasks == SelectSeq(calls, LAMBDA c : c.dispatched)
Terminated == phase = "end"

\* positions of the duplicate / primary specs of a task
DupIdx(t) == {k \in 1..Len(t.file_objs) : t.file_objs[k].is_duplicate}
PrimIdx(t) == {k \in 1..Len(t.file_objs) : ~t.file_objs[k].is_duplicate}

\* number of file specs in all dispatched tasks
TotalFiles == CountSpecs(Tasks, FALSE) + CountSpecs(Tasks, TRUE)

\* sum of the sizes the generator assigned to the files of all dispatched tasks
RECURSIVE SumByteCounts(_)
SumByteCounts(ts) ==
    IF ts = <<>> THEN 0
    ELSE SumSeq(Head(ts).file_contents.byte_counts) + SumByteCounts(Tail(ts))

TotalBytes == SumByteCounts(Tasks)

\* the file names a task creates in its target directory
NamesOf(t) == {t.file_offset + k : k \in 0..(t.num_files - 1)}

\* the run is over for materialization r: no call and no filesystem step is left
AllSettled(r) == Terminated /\ \A i \in TaskIds : W(r, i).status # "run"

(***************************************************************************)
(* ftzz() of main.rs, one step per position: the configuration file is     *)
(* read and merged, the file count is checked, the generator is built and  *)
(* generate() runs; main turns the result into the exit code.              *)
(***************************************************************************)
\* if let Some(path) = config_file { Config::from_file(&path)?; merge }
LoadConfig ==
    /\ cli.at = "config"
    /\ cli' = IF ~cli.config_file.given
              THEN [cli EXCEPT !.at = "num_files"]
              ELSE IF ~cli.config_file.readable \/ ~cli.config_file.parsable
              THEN Rejected("InvalidArgs")
              ELSE [cli EXCEPT !.options = merge(@, cli.config_file.config),
                               !.at = "num_files"]
    /\ UNCHANGED <<genVars, schedVars, workers, fs_dirs, fs_files, audit_trail, audit>>

\* if options.num_files.is_none() { return Err(MissingNumFiles) }
CheckNumFiles ==
    /\ cli.at = "num_files"
    /\ cli' = IF cli.options.num_files = None
              THEN Rejected("MissingNumFiles")
              ELSE [cli EXCEPT !.at = "try_from"]
    /\ UNCHANGED <<genVars, schedVars, workers, fs_dirs, fs_files, audit_trail, audit>>

\* Generator::try_from(options).change_context(InvalidArgs)?
TryFrom ==
    /\ cli.at = "try_from"
    /\ cli' = IF \/ cli.options.num_files = None
                 \/ (cli.options.file_to_dir_ratio # None /\ ~cli.ratio_ok)
              THEN Rejected("InvalidArgs")
              ELSE [cli EXCEPT !.at = "generate"]
    /\ UNCHANGED <<genVars, schedVars, workers, fs_dirs, fs_files, audit_trail, audit>>

\* generate() returns once the walk has ended and every task has completed;
\* a failed task makes it an Err, reported as CliError::Generator
Finish ==
    /\ Generating
    /\ AllSettled(1)
    /\ cli' = IF \E i \in TaskIds : W(1, i).status # "ok"
              THEN Rejected("Generator")
              ELSE [cli EXCEPT !.at = "exit", !.exit = "success"]
    /\ UNCHANGED <<genVars, schedVars, workers, fs_dirs, fs_files, audit_trail, audit>>

\* subsets of at most n elements
UpTo(S, n) == {T \in SUBSET S : Cardinality(T) <= n}

\* what --config may name: no file, an unreadable one, one that is not valid
\* TOML for Config, or a Config with the keys of one of `keysets`
ConfigFiles(keysets) ==
    {NoConfigFile}
        \cup {[given |-> TRUE, readable |-> r, parsable |-> FALSE,
               config |-> Deserialized({}, FALSE)] : r \in BOOLEAN}
        \cup {[given |-> TRUE, readable |-> TRUE, parsable |-> TRUE,
               config |-> Deserialized(T, b)] : T \in keysets, b \in BOOLEAN}

\* command lines and configuration files with at most MaxGiven options each
InitMerge ==
    /\ InitGenerator({"dynamic"}, {None}, {None}, {0}, {0},
                     [files |-> 0, dirs |-> 0, dups |-> 0], {UncappedTasks}, {FALSE})
    /\ ~bytes /\ duplicate_percentage = 0 /\ permissions = <<>>
    /\ audit = [r \in Runs |-> <<>>]
    /\ \E S \in UpTo(OptionFields \cup FlagFields, MaxGiven) :
          \E file \in ConfigFiles(UpTo(ConfigKeys \cup FlagFields, MaxGiven)) :
              cli = Invoked(Parsed(S), file, TRUE)

NextMerge == LoadConfig

SpecMerge == InitMerge /\ [][NextMerge]_vars

\* whole runs of the program: the file count and the ratio may come from the
\* command line or from the configuration file, or be absent
InitCli ==
    /\ InitGenerator({"dynamic"}, {None}, {None}, {2}, {MaxDepth},
                     [files |-> RunTotalFiles, dirs |-> RunTotalDirs, dups |-> 0],
                     {UncappedTasks}, {FALSE})
    /\ duplicate_percentage = 0 /\ permissions = <<>>
    /\ audit = [r \in Runs |-> <<>>]
    /\ \E S \in SUBSET {"num_files", "file_to_dir_ratio"} :
          \E file \in ConfigFiles(SUBSET {"files", "ftd_ratio"}) :
              \E ratio_ok \in BOOLEAN :
                  cli = Invoked(Parsed(S), file, ratio_ok)

NextCli ==
    \/ LoadConfig
    \/ CheckNumFiles
    \/ TryFrom
    \/ DynamicQueueGen
    \/ DynamicFinalGen
    \/ RunCreateDir
    \/ RunFirstFile
    \/ RunNextFile
    \/ Finish

SpecCli == InitCli /\ [][NextCli]_vars

(***************************************************************************)
(* C1. Files-exact: at termination of a static run created with            *)
(* files_exact = N, the dispatched tasks hold N file specs in total,       *)
(* primaries and duplicates alike.                                         *)
(***************************************************************************)
FilesExactTotal ==
    (Terminated /\ kind = "static" /\ requested.files # None)
        => TotalFiles = requested.files

(***************************************************************************)
(* C2. Bytes-exact: at termination of a static run created with            *)
(* bytes_exact = B, the sizes of the files of all dispatched tasks add up  *)
(* to B.                                                                   *)
(***************************************************************************)
BytesExactTotal ==
    (Terminated /\ kind = "static" /\ requested.bytes # None)
        => TotalBytes = requested.bytes

(***************************************************************************)
(* C3. Determinism: two materializations of the same generator output      *)
(* (same seed, same parameters) end with the same files, (path, size,      *)
(* content seed, mode), and the same directories, however their tasks      *)
(* interleave.                                                             *)
(***************************************************************************)
SameTreeInBothRuns ==
    (AllSettled(1) /\ AllSettled(2))
        => fs_files[1] = fs_files[2] /\ fs_dirs[1] = fs_dirs[2]

(***************************************************************************)
(* C4. Every duplicate spec of a dispatched task has the seed and the      *)
(* permission of a non-duplicate spec dispatched in the same task or in    *)
(* an earlier one.                                                         *)
(***************************************************************************)
DuplicateHasOriginal ==
    \A i \in 1..Len(Tasks) : \A k \in DupIdx(Tasks[i]) :
        \E j \in 1..i : \E m \in PrimIdx(Tasks[j]) :
            /\ Tasks[j].file_objs[m].seed = Tasks[i].file_objs[k].seed
            /\ Tasks[j].file_objs[m].permission = Tasks[i].file_objs[k].permission

\* a duplicate taken from the pending buffer was dispatched in a later task
\* than its original, in a run with a permission palette
DrainedDuplicateDispatched ==
    /\ permissions # <<>>
    /\ \E i \in 1..Len(Tasks) : \E k \in DupIdx(Tasks[i]) :
         /\ \A m \in PrimIdx(Tasks[i]) :
                Tasks[i].file_objs[m].seed # Tasks[i].file_objs[k].seed
         /\ \E j \in 1..(i - 1) : \E m \in PrimIdx(Tasks[j]) :
                Tasks[j].file_objs[m].seed = Tasks[i].file_objs[k].seed

(***************************************************************************)
(* C5. Any two files of a run whose specs have the same seed are written   *)
(* with the same content, and at the end of the run every duplicate that   *)
(* was written has a non-duplicate peer written with the same content.     *)
(***************************************************************************)
SameSeedSameContent ==
    /\ \A i, j \in TaskIds : \A a \in W(1, i).written : \A b \in W(1, j).written :
          a.file.seed = b.file.seed => a.file = b.file
    /\ AllSettled(1) =>
          \A i \in TaskIds : \A k \in DupIdx(calls[i]) :
            \A a \in W(1, i).written :
              a.name = calls[i].file_offset + k - 1 =>
                \E j \in TaskIds : \E m \in PrimIdx(calls[j]) :
                \E b \in W(1, j).written :
                    /\ b.name = calls[j].file_offset + m - 1
                    /\ b.file = a.file

(***************************************************************************)
(* C6. At termination of a run the pending-duplicate buffer is empty.      *)
(***************************************************************************)
PendingEmptyAtEnd == Terminated => pending_duplicates = <<>>

(***************************************************************************)
(* C7. No two tasks targeting the same directory create a file of the      *)
(* same name.                                                              *)
(***************************************************************************)
NoNameReuse ==
    \A i, j \in 1..Len(Tasks) :
        (i < j /\ Tasks[i].target_dir = Tasks[j].target_dir)
            => NamesOf(Tasks[i]) \cap NamesOf(Tasks[j]) = {}

(***************************************************************************)
(* C8. A task that completed with n files, d directories and offset o      *)
(* created the files named o, ..., o+n-1 and the subdirectories            *)
(* 0.dir, ..., (d-1).dir, each once; a task still running created a part   *)
(* of them.                                                                *)
(***************************************************************************)
TaskNamesExact ==
    \A i \in TaskIds :
        LET t == calls[i]
            w == W(1, i)
            names == {a.name : a \in w.written}
        IN  /\ names \subseteq t.file_offset..(t.file_offset + t.num_files - 1)
            /\ w.dirs_made \subseteq 0..(t.num_dirs - 1)
            /\ w.status = "ok" =>
                  /\ names = t.file_offset..(t.file_offset + t.num_files - 1)
                  /\ Cardinality(names) = t.num_files
                  /\ w.dirs_made = 0..(t.num_dirs - 1)
                  /\ Cardinality(w.dirs_made) = t.num_dirs

\* a final batch with a positive offset completed, and so did a batch with
\* at least two files and a subdirectory
OffsetTaskCompleted ==
    /\ \E i \in TaskIds :
         /\ W(1, i).status = "ok"
         /\ calls[i].file_offset > 0 /\ calls[i].num_files > 0
    /\ \E i \in TaskIds :
         /\ W(1, i).status = "ok"
         /\ calls[i].num_files > 1 /\ calls[i].num_dirs > 0

(***************************************************************************)
(* C9. Depth bound: every task targets a directory at most max_depth       *)
(* levels below the root and creates subdirectories only above that depth; *)
(* a queue_gen call with gen_dirs = false reports num_dirs = 0, and so     *)
(* does every final-flush batch.                                           *)
(***************************************************************************)
DepthBound ==
    \A i \in 1..Len(calls) :
        LET c == calls[i]
        IN  /\ c.dispatched => Len(c.target_dir) <= max_depth
            /\ (c.dispatched /\ c.num_dirs > 0) => Len(c.target_dir) + 1 <= max_depth
            /\ (c.op = "queue_gen" /\ ~c.gen_dirs) => c.num_dirs = 0
            /\ c.op = "final" => c.num_dirs = 0

\* a batch of files was dispatched for a directory at depth max_depth, and a
\* final-flush batch was dispatched
DeepestBatchAndFlush ==
    /\ max_depth > 0
    /\ \E i \in 1..Len(calls) :
         /\ calls[i].op = "queue_gen" /\ calls[i].dispatched
         /\ ~calls[i].gen_dirs /\ calls[i].num_files > 0
         /\ Len(calls[i].target_dir) = max_depth
    /\ \E i \in 1..Len(calls) : calls[i].op = "final" /\ calls[i].dispatched

(***************************************************************************)
(* C10. Whatever the interleaving of the tasks, every task completes       *)
(* successfully, also one that runs before its target directory was made,  *)
(* and at the end of the run every directory and every file requested by   *)
(* a dispatched task exists.                                               *)
(***************************************************************************)
AllRequestedExist ==
    AllSettled(1) =>
        \A i \in TaskIds :
            /\ W(1, i).status = "ok"
            /\ \A k \in 0..(calls[i].num_dirs - 1) :
                   Append(calls[i].target_dir, k) \in fs_dirs[1]
            /\ \A n \in NamesOf(calls[i]) :
                   <<calls[i].target_dir, n>> \in DOMAIN fs_files[1]

(***************************************************************************)
(* C11. A task whose first file failed with 'parent not found' has created *)
(* its target directory, and creates the first file again in its loop:     *)
(* when it completes, the first file of the batch was created by it, like  *)
(* every other file of the batch.                                          *)
(***************************************************************************)
RecoveryRetriesFirst ==
    \A i \in TaskIds :
        LET t == calls[i]
            w == W(1, i)
        IN  w.recovered =>
              /\ t.target_dir \in fs_dirs[1]
              /\ w.status = "ok" =>
                    {a.name : a \in w.written} =
                        t.file_offset..(t.file_offset + t.num_files - 1)

\* the claim as stated: the first file is left uncreated by a task that
\* recovered from 'parent not found'
RecoverySkipsFirst ==
    \A i \in TaskIds :
        (W(1, i).recovered /\ W(1, i).status = "ok")
            => calls[i].file_offset \notin {a.name : a \in W(1, i).written}

\* a task that recovered from 'parent not found' completed a batch of at
\* least two files
RecoveredTaskCompleted ==
    \E i \in TaskIds :
        /\ W(1, i).recovered /\ W(1, i).status = "ok"
        /\ calls[i].num_files > 1

DirsBeforeFiles ==
    \A i \in TaskIds :
        LET t == calls[i]
            w == W(1, i)
        IN  (w.tried \/ w.written # {}) =>
              /\ w.dirs_made = 0..(t.num_dirs - 1)
              /\ \A d \in 0..(t.num_dirs - 1) : Append(t.target_dir, d) \in fs_dirs[1]

\* a task with subdirectories and files has written a file
FileAfterSubdirs ==
    \E i \in TaskIds :
        /\ calls[i].num_dirs > 0
        /\ W(1, i).written # {}

(***************************************************************************)
(* C14. The outcome of a task that returned Ok reports as bytes_generated  *)
(* the sum of the sizes of the files the task created, each once, and as   *)
(* files_generated the number of files it created; this holds on the       *)
(* recovery path too.                                                      *)
(***************************************************************************)
RECURSIVE SumSizes(_)
SumSizes(S) ==
    IF S = {} THEN 0
    ELSE LET a == CHOOSE x \in S : TRUE IN a.file.size + SumSizes(S \ {a})

OutcomeCountsWhatWasCreated ==
    \A i \in TaskIds :
        W(1, i).status = "ok" =>
          /\ Outcome(1, i).bytes_generated = SumSizes(W(1, i).written)
          /\ Outcome(1, i).files_generated = Cardinality(W(1, i).written)
          /\ Outcome(1, i).files_generated =
                Cardinality({a.name : a \in W(1, i).written})

\* a task that recovered from 'parent not found' returned Ok having written
\* two files with bytes in the first
RecoveredOutcomeWithBytes ==
    \E i \in TaskIds :
        /\ W(1, i).status = "ok" /\ W(1, i).recovered
        /\ calls[i].num_files > 1
        /\ \E a \in W(1, i).written : a.name = calls[i].file_offset /\ a.file.size > 0

(***************************************************************************)
(* C15. Pool balance on the successful paths.  The path buffer of a call   *)
(* is handed back with 'nothing to do' or travels with the dispatched task *)
(* and comes back in its outcome.  A size vector popped from the pool is   *)
(* pushed back by the call itself, or is moved into a pre-defined contents *)
(* generator whose task is dispatched and whose outcome returns the vector.*)
(***************************************************************************)
PopsOf(cs) == {i \in 1..Len(cs) : cs[i].byte_counts_pool # "untouched"}

ReturnsOf(r, cs) ==
    {i \in 1..Len(cs) :
        \/ cs[i].byte_counts_pool = "pushed"
        \/ /\ cs[i].dispatched /\ W(r, i).status = "ok"
           /\ Outcome(r, i).pool_return_byte_counts # {}}

PoolBalance ==
    /\ \A i \in 1..Len(calls) :
         LET c == calls[i]
         IN  /\ c.handed_back = IF c.dispatched THEN {} ELSE {c.target_dir}
             /\ (c.file_contents.kind = "predefined") = (c.byte_counts_pool = "moved")
             /\ c.byte_counts_pool = "moved" => c.dispatched
             /\ (c.dispatched /\ W(1, i).status = "ok") =>
                   /\ Outcome(1, i).pool_return_file = c.target_dir
                   /\ Outcome(1, i).pool_return_byte_counts =
                         IF c.byte_counts_pool = "moved"
                         THEN {c.file_contents.byte_counts} ELSE {}
    /\ (\A i \in TaskIds : W(1, i).status = "ok") => ReturnsOf(1, calls) = PopsOf(calls)

\* a run ended with every task Ok, having moved a size vector into a task,
\* pushed one back unused and handed a path buffer back
VectorsMovedAndRecycled ==
    /\ AllSettled(1)
    /\ \A i \in TaskIds : W(1, i).status = "ok"
    /\ \E i, j, k \in 1..Len(calls) :
          /\ calls[i].byte_counts_pool = "moved"
          /\ calls[j].byte_counts_pool = "pushed"
          /\ calls[k].handed_back # {}

(***************************************************************************)
(* C16. The final-batch loop terminates: at most one final batch is        *)
(* dispatched, the call after a dispatched final batch returns 'nothing to *)
(* do', the loop makes at most two calls, it can always make its next call *)
(* and it ends on a 'nothing to do'.                                       *)
(***************************************************************************)
FinalCalls == {i \in 1..Len(calls) : calls[i].op = "final"}

FinalLoopEnds ==
    /\ Cardinality({i \in FinalCalls : calls[i].dispatched}) <= 1
    /\ Cardinality(FinalCalls) <= 2
    /\ \A i \in FinalCalls :
         /\ \A j \in 1..Len(calls) : j > i => j \in FinalCalls
         /\ (calls[i].dispatched /\ i < Len(calls)) => ~calls[i + 1].dispatched
         /\ (~calls[i].dispatched) => (i = Len(calls) /\ Terminated)
    /\ phase = "final" => ENABLED (DynamicFinalGen \/ StaticFinalGen)
    /\ Terminated => (FinalCalls # {} /\ ~calls[Len(calls)].dispatched)

\* the dynamic generator has ended a loop that flushed its pending
\* duplicates in a final batch
FinalBatchThenNothing ==
    /\ Terminated
    /\ kind = "dynamic"
    /\ Cardinality(FinalCalls) = 2
    /\ calls[Len(calls) - 1].dispatched
    /\ calls[Len(calls) - 1].num_files > 0

(***************************************************************************)
(* C17. queue returns 'nothing to do', handing the path buffer back,       *)
(* exactly when the batch has no file specs and no subdirectories.         *)
(* Otherwise it dispatches one task, whose num_files is the length of the  *)
(* spec list (primaries and duplicates together).                          *)
(***************************************************************************)
QueueDispatchesNonEmpty ==
    \A i \in 1..Len(calls) :
        LET c == calls[i]
        IN  /\ c.dispatched = (c.file_objs # <<>> \/ c.num_dirs > 0)
            /\ c.dispatched => /\ c.num_files = Len(c.file_objs)
                               /\ c.num_files = Cardinality(PrimIdx(c)) +
                                                 Cardinality(DupIdx(c))
                               /\ c.handed_back = {}
            /\ (~c.dispatched) => c.handed_back = {c.target_dir}

\* queue has dispatched a batch of subdirectories only and a batch holding a
\* primary and a duplicate, and has returned 'nothing to do' for a visit
QueueBothWays ==
    \E i, j, k \in 1..Len(calls) :
        /\ calls[i].dispatched /\ calls[i].file_objs = <<>> /\ calls[i].num_dirs > 0
        /\ calls[j].dispatched /\ PrimIdx(calls[j]) # {} /\ DupIdx(calls[j]) # {}
        /\ ~calls[k].dispatched /\ calls[k].op = "queue_gen"

(***************************************************************************)
(* C18. The number of tasks dispatched and not yet completed never exceeds *)
(* the configured maximum.                                                 *)
(***************************************************************************)
OutstandingWithinCap == Outstanding <= max_tasks

\* the cap is reached by running tasks while the scheduler has a call left
\* to make and a batch left to dispatch
CapReachedMidWalk ==
    /\ Outstanding = max_tasks
    /\ max_tasks > 1
    /\ phase = "final"
    /\ kind = "static" /\ ~done /\ files_exact # None /\ files_exact > 0

(***************************************************************************)
(* C19. Two identical runs with an audit trail, both of which completed    *)
(* every task, write out the same sequence of audit entries.               *)
(***************************************************************************)
SameAuditInBothRuns ==
    (/\ AllSettled(1) /\ AllSettled(2)
     /\ \A i \in TaskIds : W(1, i).status = "ok" /\ W(2, i).status = "ok")
        => AuditOutput(1) = AuditOutput(2)

(***************************************************************************)
(* C20. calculate_directory_sizes sets the size of every directory entry   *)
(* to the sum of the sizes of the file entries whose path lies beneath the *)
(* directory at any depth (0 when there are none) and leaves the file      *)
(* entries, and the order of the entries, unchanged.                       *)
(***************************************************************************)
Beneath(file_path, dir_path) ==
    /\ Len(dir_path.dir) <= Len(file_path.dir)
    /\ SubSeq(file_path.dir, 1, Len(dir_path.dir)) = dir_path.dir

RECURSIVE SumBeneath(_, _, _)
SumBeneath(entries, k, dir_path) ==
    IF k > Len(entries) THEN 0
    ELSE (IF entries[k].entry_type = "file" /\ Beneath(entries[k].path, dir_path)
          THEN entries[k].size ELSE 0) + SumBeneath(entries, k + 1, dir_path)

DirectorySizesRolledUp ==
    [][phase' = "audited" =>
         /\ Len(audit'[1]) = Len(audit[1])
         /\ \A k \in 1..Len(audit[1]) :
              audit'[1][k] =
                  IF audit[1][k].entry_type = "directory"
                  THEN [audit[1][k] EXCEPT
                           !.size = SumBeneath(audit[1], 1, audit[1][k].path)]
                  ELSE audit[1][k]
      ]_vars

\* after the roll-up a directory holds the size of a file two levels below
\* it, and another directory has no file beneath it
NestedSizeRolledUp ==
    /\ phase = "audited"
    /\ \E i, j, k \in 1..Len(audit[1]) :
          /\ audit[1][i].entry_type = "directory" /\ audit[1][i].path.dir = <<0>>
          /\ audit[1][j].entry_type = "file" /\ audit[1][j].path.dir = <<0, 0>>
          /\ audit[1][i].size = audit[1][j].size
          /\ audit[1][k].entry_type = "directory" /\ audit[1][k].size = 0

(***************************************************************************)
(* C21. With a hash seed (an audit trail), create_file returns a digest    *)
(* for every file it creates, whatever the writer and the size: every file *)
(* entry handed to the audit trail carries a hash.                         *)
(***************************************************************************)
HashWhenSeeded ==
    hash_seed # {} =>
        \A r \in Runs : \A k \in 1..Len(audit[r]) :
            audit[r][k].entry_type = "file" => audit[r][k].hash # {}

(***************************************************************************)
(* C22. The header row of the audit CSV is exactly                         *)
(* path,type,size,hash,permissions,owner.                                  *)
(***************************************************************************)
HeaderSixColumns ==
    phase = "audited" =>
        \A r \in Runs :
            write_csv(audit[r]).header
                = <<"path", "type", "size", "hash", "permissions", "owner">>

(***************************************************************************)
(* C23. With a mode palette, every file spec of a dispatched task carries  *)
(* palette[seed mod |palette|], so that two runs with the same seed and    *)
(* parameters give the same mode to the same file path.                    *)
(***************************************************************************)
SameModeInBothRuns ==
    (AllSettled(1) /\ AllSettled(2) /\ permissions # <<>>)
        => \A p \in DOMAIN fs_files[1] \cap DOMAIN fs_files[2] :
               fs_files[1][p].mode = fs_files[2][p].mode

\* every dispatched file spec carries the palette entry selected by its seed
PermissionFromSeed ==
    \A i \in 1..Len(Tasks) : \A k \in 1..Len(Tasks[i].file_objs) :
        Tasks[i].file_objs[k].permission
            = PermissionOf(Tasks[i].file_objs[k].seed, permissions)

(***************************************************************************)
(* C24. Once the configuration file is merged into the options, every      *)
(* option has the command line's value if the command line gave it, and    *)
(* the configuration file's value otherwise.                               *)
(***************************************************************************)
ConfigKey(f) ==
    CASE f = "num_files" -> "files"
      [] f = "num_bytes" -> "total_bytes"
      [] f = "file_to_dir_ratio" -> "ftd_ratio"
      [] OTHER -> f

MergedPrefersCli ==
    (cli.at = "num_files" /\ cli.config_file.given)
        => /\ \A f \in OptionFields :
                cli.options[f] = IF cli.args[f] # None THEN cli.args[f]
                                 ELSE cli.config_file.config[ConfigKey(f)]
           /\ \A f \in FlagFields :
                cli.options[f] = IF cli.args[f] THEN TRUE
                                 ELSE unwrap_or(cli.config_file.config[f], FALSE)

\* merged: the file count given by both (the command line's is kept), the
\* seed given by the configuration file only
CliOverridesConfig ==
    /\ cli.at = "num_files"
    /\ cli.args.num_files = CliValue /\ cli.config_file.config.files = ConfigValue
    /\ cli.args.seed = None /\ cli.config_file.config.seed = ConfigValue
    /\ cli.options.num_files = CliValue /\ cli.options.seed = ConfigValue

(***************************************************************************)
(* C25. A configuration error (config file unreadable or unparsable, file  *)
(* count absent from command line and config, invalid files/ratio) ends    *)
(* the process with a failure before the generator is started: no call to  *)
(* the generator, no file and no directory created; and the generator is   *)
(* started only if none of them occurred.                                  *)
(***************************************************************************)
ConfigErrorBeforeWork ==
    LET file == cli.config_file
        bad_file == file.given /\ (~file.readable \/ ~file.parsable)
        merged == IF file.given THEN merge(cli.args, file.config) ELSE cli.args
    IN  /\ cli.error \in {"InvalidArgs", "MissingNumFiles"}
            => /\ cli.exit = "failure"
               /\ calls = <<>>
               /\ \A r \in Runs :
                    workers[r] = <<>> /\ fs_files[r] = <<>> /\ fs_dirs[r] = {<<>>}
        /\ (Generating \/ calls # <<>>)
            => /\ ~bad_file
               /\ merged.num_files # None
               /\ merged.file_to_dir_ratio # None => cli.ratio_ok
               /\ cli.error = "none"

\* the file count is absent from the command line and from a readable
\* configuration file: the process has ended with a failure
MissingNumFilesReported ==
    /\ cli.at = "exit" /\ cli.error = "MissingNumFiles" /\ cli.exit = "failure"
    /\ cli.config_file.given /\ cli.config_file.parsable

(***************************************************************************)
(* C26. Every task the static generator dispatches with the predefined     *)
(* writer has one size per file spec: byte_counts[file_num] is in bounds   *)
(* for every file of the task.                                             *)
(***************************************************************************)
ByteCountsAligned ==
    \A i \in 1..Len(Tasks) :
        Tasks[i].file_contents.kind = "predefined"
            => Len(Tasks[i].file_contents.byte_counts) = Len(Tasks[i].file_objs)

(***************************************************************************)
(* C27. StaticGenerator::queue_gen with files_exact set: a sample that     *)
(* reaches the remaining budget (equal to it or above it) is clamped to    *)
(* the budget, done becomes true and the budget is left as it is; a sample *)
(* below the budget is subtracted from it and done is left unchanged.      *)
(***************************************************************************)
\* the static walk is about to call queue_gen with a file budget
ClampApplies == kind = "static" /\ Walking /\ files_exact # None

ClampAtBudget ==
    ClampApplies =>
        \A sample \in FileSamples :
            LET c == ClampFiles(sample, files_exact, done)
            IN  IF sample >= files_exact
                THEN c.num_files = files_exact /\ c.done /\ c.files_exact = files_exact
                ELSE /\ c.num_files = sample
                     /\ c.files_exact = files_exact - sample
                     /\ c.done = done

\* as stated: only a sample above the budget is clamped and sets done; a
\* sample equal to the budget is subtracted and leaves done unchanged
ClampOnlyAboveBudget ==
    ClampApplies =>
        \A sample \in FileSamples :
            LET c == ClampFiles(sample, files_exact, done)
            IN  IF sample > files_exact
                THEN c.num_files = files_exact /\ c.done
                ELSE /\ c.num_files = sample
                     /\ c.files_exact = files_exact - sample
                     /\ c.done = done

\* the first queue_gen call drew a sample that reached the whole budget: the
\* batch has the budget's primaries, done is set and the budget is unchanged
ClampedAtBudget ==
    /\ kind = "static" /\ requested.files # None
    /\ Len(calls) = 1 /\ calls[1].op = "queue_gen"
    /\ Cardinality(PrimIdx(calls[1])) = requested.files
    /\ done /\ files_exact = requested.files

(***************************************************************************)
(* C28. The final batch of the static generator, built by                  *)
(* maybe_queue_final_gen when done was not set: with files_exact it has    *)
(* the outstanding file budget as primaries; with a byte budget only and   *)
(* bytes left, one primary whose size is the whole leftover; it has no     *)
(* subdirectories and is flagged done.                                     *)
(***************************************************************************)
StaticFinalBatch ==
    [][(kind = "static" /\ phase = "final" /\ ~done /\ Len(calls') = Len(calls) + 1)
        => LET c == calls'[Len(calls')]
           IN  /\ files_exact # None
                    => /\ c.dispatched /\ c.op = "final"
                       /\ Cardinality(PrimIdx(c)) = files_exact
                       /\ c.num_dirs = 0 /\ c.done
               /\ (files_exact = None /\ bytes_exact # None /\ bytes_exact > 0)
                    => /\ c.dispatched /\ c.op = "final"
                       /\ Cardinality(PrimIdx(c)) = 1
                       /\ ~c.file_objs[1].is_duplicate
                       /\ c.file_contents.kind = "predefined"
                       /\ c.file_contents.byte_counts[1] = bytes_exact
                       /\ c.num_dirs = 0 /\ c.done
      ]_vars

\* after a first batch that left bytes over, a run with a byte budget only
\* got its catch-up file
CatchUpFileDispatched ==
    /\ kind = "static" /\ requested.files = None
    /\ Len(calls) >= 2
    /\ LET c == calls[Len(calls)]
       IN  /\ c.op = "final" /\ c.dispatched /\ c.done
           /\ Cardinality(PrimIdx(c)) = 1
           /\ c.file_contents.byte_counts[1] < requested.bytes

(***************************************************************************)
(* C29. In a done batch with n >= 1 primaries sized from a byte budget,    *)
(* the remainder r the samples left unused is spread over the primaries:   *)
(* each gets floor(r/n), the first r mod n one more; the increases sum to  *)
(* r and any two differ by at most 1.                                      *)
(***************************************************************************)
LeftoversSpread ==
    [][(/\ kind = "static" /\ bytes_exact # None /\ bytes_exact > 0
        /\ Len(calls') = Len(calls) + 1
        /\ calls'[Len(calls')].done
        /\ PrimIdx(calls'[Len(calls')]) # {})
        => LET c == calls'[Len(calls')]
               n == Cardinality(PrimIdx(c))
               sizes == c.file_contents.byte_counts
           IN  \E o \in SampleBytes(<<>>, n, bytes_exact) :
                 LET r == o.bytes
                     inc == [i \in 1..n |-> sizes[i] - o.counts[i]]
                 IN  /\ \A i \in 1..n :
                          inc[i] = (r \div n) + (IF i <= r % n THEN 1 ELSE 0)
                     /\ SumSeq(inc) = r
                     /\ \A i, j \in 1..n : inc[i] - inc[j] <= 1
      ]_vars

\* a done batch of two primaries that shares the whole budget of the run, the
\* first primary holding more than the second
LeftoverToFirst ==
    /\ kind = "static" /\ requested.bytes # None
    /\ Len(calls) = 1 /\ calls[1].done /\ calls[1].dispatched
    /\ Cardinality(PrimIdx(calls[1])) = 2
    /\ calls[1].file_contents.kind = "predefined"
    /\ calls[1].file_contents.byte_counts[1] > calls[1].file_contents.byte_counts[2]
    /\ calls[1].file_contents.byte_counts[1] + calls[1].file_contents.byte_counts[2]
           = requested.bytes

(***************************************************************************)
(* C30. A batch that is not flagged done takes at most                     *)
(* max(1, floor(num_primaries/2)) entries from the pending buffer, from    *)
(* its most recently pushed end, and appends them after its primaries and  *)
(* local duplicates; a batch flagged done takes the whole buffer.          *)
(***************************************************************************)
Reversed(s) == [i \in 1..Len(s) |-> s[Len(s) - i + 1]]
SpecsOf(pending) == [i \in 1..Len(pending) |-> pending[i].spec]

\* the call c is explained by a drain of its last k specs: the buffer before
\* the drain is the buffer left plus these k in reverse order; it starts with
\* the buffer before the call, and what follows was pushed by this batch
DrainedLast(c, k, before, after) ==
    LET n == Cardinality(PrimIdx(c))
        len == Len(c.file_objs)
        taken == SubSeq(c.file_objs, len - k + 1, len)
        mid == SpecsOf(after) \o Reversed(taken)
        own == {c.file_objs[i].seed : i \in 1..n}
    IN  /\ \A i \in 1..n : ~c.file_objs[i].is_duplicate
        /\ \A i \in (n + 1)..len : c.file_objs[i].is_duplicate
        /\ \A i \in (n + 1)..(len - k) : c.file_objs[i].seed \in own
        /\ Len(mid) >= Len(before)
        /\ SubSeq(mid, 1, Len(before)) = SpecsOf(before)
        /\ \A i \in (Len(before) + 1)..Len(mid) : mid[i].seed \in own

DynamicDrains(num_files) ==
    LET rnd == random + 1 + (IF MayGenDirs THEN 1 ELSE 0)
        specs == generate_primary_specs(num_files, rnd, permissions)
    IN  { [pushed |-> a.pending,
           left |-> DrainPending(a, Min(Len(a.pending),
                                        DrainLimit(FALSE, Len(a.pending), num_files)),
                                 FALSE).pending]
          : a \in add_duplicates_to_specs_and_buffer(
                      specs, FALSE, <<>>, pending_duplicates, duplicate_percentage,
                      max_duplicates_per_file, permissions, DupRoom) }

ScatteredStaysPending ==
    (kind = "dynamic" /\ Walking /\ bytes)
        => \A num_files \in FileSamples : \A d \in DynamicDrains(num_files) :
               \A j \in (Len(pending_duplicates) + 1)..Len(d.pushed) :
                   j <= Len(d.left)

(***************************************************************************)
(* C32. Every entry of the pending buffer has a recorded size if and only  *)
(* if the generator is in bytes-exact mode, so a duplicate drained in that *)
(* mode always brings its size (the push of 0 is never taken).             *)
(***************************************************************************)
\* StaticGenerator with bytes_exact Some: the mode is fixed for the run
BytesExactMode == kind = "static" /\ requested.bytes # None

PendingSizesIffBytesExact ==
    \A k \in 1..Len(pending_duplicates) :
        (pending_duplicates[k].size # None) <=> BytesExactMode

\* a duplicate with its size is waiting in the buffer of a bytes-exact run
\* after a batch was dispatched
SizedDuplicatePending ==
    /\ BytesExactMode
    /\ calls # <<>>
    /\ pending_duplicates # <<>>
    /\ pending_duplicates[1].size > 0

(***************************************************************************)
(* C33. Duplication does not perturb structure: what a queue_gen call      *)
(* draws from the generator's RNG is fixed by the structure of its batch   *)
(* (file count, directory count, primaries, their sizes, the content       *)
(* seed), so the stream stands where it stands in the run without          *)
(* duplicates and the next call samples the same primaries.                *)
(***************************************************************************)
\* the draws of a queue_gen call that returned c in the run without
\* duplicates: the file count, the directory count, one seed per primary,
\* one size per primary and the seed of the content writer
StructuralDraws(c) ==
    LET n == Cardinality(PrimIdx(c))
    IN  1 + (IF c.gen_dirs /\ ~c.done THEN 1 ELSE 0) + n
          + (IF ~bytes THEN 0
             ELSE IF bytes_exact = None THEN 1
             ELSE IF n > 0 /\ bytes_exact > 0 THEN n + 1 ELSE 0)

RngIndependentOfDuplicates ==
    [][(Len(calls') = Len(calls) + 1 /\ calls'[Len(calls')].op = "queue_gen")
        => LET c == calls'[Len(calls')]
               first == random + 1 + (IF c.gen_dirs /\ ~c.done THEN 1 ELSE 0)
           IN  /\ \A i \in PrimIdx(c) : c.file_objs[i].seed = NextU64(first + i - 1)
               /\ random' = random + StructuralDraws(c)
      ]_vars

(***************************************************************************)
(* C34. With maximum M, a selected primary spawns 1 to M - 1 duplicates and *)
(* at most M - 1 duplicates are ever created for one primary, in its batch *)
(* and in the pending buffer together; with M < 2 or                       *)
(* duplicate_percentage <= 0 there is no duplicate at all and the pending  *)
(* buffer stays empty.                                                     *)
(***************************************************************************)
\* the duplicate specs of seed s made so far: dispatched or still pending
DuplicatesOf(s) ==
    SumSeq([i \in 1..Len(calls) |->
               Cardinality({k \in DupIdx(calls[i]) : calls[i].file_objs[k].seed = s})])
      + Cardinality({k \in 1..Len(pending_duplicates) :
                        pending_duplicates[k].spec.seed = s})

DuplicatesPerPrimary ==
    /\ \A i \in 1..Len(calls) : \A m \in 1..Len(calls[i].file_objs) :
          DuplicatesOf(calls[i].file_objs[m].seed) <= Max(0, max_duplicates_per_file - 1)
    /\ max_duplicates_per_file >= 2
          => DupCopies(max_duplicates_per_file) \subseteq 1..(max_duplicates_per_file - 1)
    /\ (max_duplicates_per_file < 2 \/ duplicate_percentage <= 0)
          => /\ pending_duplicates = <<>>
             /\ \A i \in 1..Len(calls) : DupIdx(calls[i]) = {}

\* a primary got the M - 1 duplicates a maximum of M >= 3 allows
PrimaryWithMaxDuplicates ==
    /\ max_duplicates_per_file >= 3
    /\ \E i \in 1..Len(calls) : \E m \in PrimIdx(calls[i]) :
          DuplicatesOf(calls[i].file_objs[m].seed) = max_duplicates_per_file - 1

(***************************************************************************)
(* C35. The batch of the StaticGenerator::queue_gen call that sets done    *)
(* has num_dirs = 0 and at least one primary file: it is dispatched and    *)
(* the walk does not descend below it.                                     *)
(***************************************************************************)
\* the step is a queue_gen call of the static generator that sets done
SetsDone ==
    /\ kind = "static"
    /\ ~done
    /\ done'
    /\ Len(calls') = Len(calls) + 1
    /\ calls'[Len(calls')].op = "queue_gen"

DoneBatchIsLeaf ==
    [][SetsDone =>
          LET c == calls'[Len(calls')]
          IN  /\ c.num_dirs = 0
              /\ Cardinality(PrimIdx(c)) >= 1
              /\ c.dispatched
              /\ stack' = <<>>]_vars

\* the last call was a queue_gen of a directory that may have subdirectories
\* and it set done
DoneBatchDispatched ==
    /\ kind = "static"
    /\ done
    /\ calls # <<>>
    /\ calls[Len(calls)].op = "queue_gen"
    /\ calls[Len(calls)].gen_dirs
    /\ calls[Len(calls)].done
    /\ calls[Len(calls)].num_dirs = 0
    /\ calls[Len(calls)].num_files >= 1

(***************************************************************************)
(* C36. A queue_gen call with gen_dirs = true whose batch has at least one *)
(* primary file reports num_dirs >= 1, in the dynamic generator and in the *)
(* static generator while it is not done.                                  *)
(***************************************************************************)
\* a queue_gen call that was allowed to descend, made files and is not done
Descending(c) ==
    /\ c.op = "queue_gen"
    /\ c.gen_dirs
    /\ ~c.done
    /\ PrimIdx(c) # {}

FilesForceDirectory ==
    \A i \in 1..Len(calls) : Descending(calls[i]) => calls[i].num_dirs >= 1

\* a static call that was allowed to descend made files and one directory
ForcedDirectory ==
    /\ kind = "static"
    /\ \E i \in 1..Len(calls) : Descending(calls[i]) /\ calls[i].num_dirs = 1

(***************************************************************************)
(* C37. StaticGenerator::queue_gen is never invoked after a queue_gen call *)
(* returned done = true or after maybe_queue_final_gen ran: !done holds on *)
(* entry of every call, and the remaining siblings of a done batch get no  *)
(* queue_gen.                                                              *)
(***************************************************************************)
\* the step is a queue_gen call of the static generator
StaticQueueGenCalled ==
    /\ kind = "static"
    /\ Len(calls') = Len(calls) + 1
    /\ calls'[Len(calls')].op = "queue_gen"

NoQueueGenAfterDone ==
    [][StaticQueueGenCalled =>
          /\ ~done
          /\ \A i \in 1..Len(calls) : ~calls[i].done /\ calls[i].op # "final"]_vars

\* the first of the root's two subdirectories made the batch that set done,
\* and the final call followed it
SiblingLeftUnvisited ==
    /\ kind = "static"
    /\ Len(calls) >= 3
    /\ calls[1].num_dirs = 2
    /\ calls[2].op = "queue_gen"
    /\ calls[2].done
    /\ calls[3].op = "final"

(***************************************************************************)
(* C38. In files-exact mode with target N the primary file specs of all    *)
(* dispatched tasks, the final batch included, number exactly N when the   *)
(* run has ended; until done is set they number N minus the remaining file *)
(* budget, and that budget is at least 1.                                  *)
(***************************************************************************)
FilesExactMode == kind = "static" /\ requested.files # None

ExactlyNPrimaries ==
    FilesExactMode =>
        /\ ~done => files_exact >= 1
        /\ ~done => CountSpecs(Tasks, FALSE) = requested.files - files_exact
        /\ done => CountSpecs(Tasks, FALSE) = requested.files
        /\ Terminated => done

\* an ended files-exact run whose primaries come partly from the walk and
\* partly from the final batch
PrimariesInWalkAndFinal ==
    /\ FilesExactMode
    /\ Terminated
    /\ CountSpecs(Tasks, FALSE) = requested.files
    /\ \E i, j \in 1..Len(calls) :
          /\ calls[i].op = "queue_gen"
          /\ calls[j].op = "final"
          /\ PrimIdx(calls[i]) # {}
          /\ PrimIdx(calls[j]) # {}

(***************************************************************************)
(* C39. In bytes-exact mode the remaining byte budget never underflows and *)
(* never increases, and every call gives its primaries exactly what it     *)
(* takes from the budget, so that the sizes assigned so far to primaries   *)
(* plus the remaining budget equal B at every point.                       *)
(***************************************************************************)
\* the step is a generator call of a bytes-exact run
BytesExactCall == BytesExactMode /\ Len(calls') = Len(calls) + 1

\* the sizes call c recorded for its primaries, given the budget it found:
\* they are the first entries of the size vector, written only when the
\* batch has primaries and the budget is positive
PrimaryBytes(c, budget) ==
    IF PrimIdx(c) # {} /\ budget > 0
    THEN SumSeq(SubSeq(c.file_contents.byte_counts, 1, Cardinality(PrimIdx(c))))
    ELSE 0

ByteBudgetConserved ==
    [][BytesExactCall =>
          /\ bytes_exact' \in 0..bytes_exact
          /\ PrimaryBytes(calls'[Len(calls')], bytes_exact) = bytes_exact - bytes_exact']_vars

(***************************************************************************)
(* C39, amended. The budget never underflows and never increases; a call   *)
(* that is not done gives its primaries exactly what it takes from the     *)
(* budget, and a done call gives its primaries the whole budget it found   *)
(* while the counter keeps the remainder that was spread.                  *)
(***************************************************************************)
ByteBudgetSpent ==
    [][BytesExactCall =>
          LET c == calls'[Len(calls')]
          IN  /\ bytes_exact' \in 0..bytes_exact
              /\ ~c.done => PrimaryBytes(c, bytes_exact) = bytes_exact - bytes_exact'
              /\ c.done => PrimaryBytes(c, bytes_exact) = bytes_exact]_vars

\* the done batch spread a remainder over its primaries and the counter
\* still holds it
RemainderSpreadAndKept ==
    /\ BytesExactMode
    /\ done
    /\ bytes_exact > 0
    /\ calls # <<>>
    /\ calls[Len(calls)].done
    /\ SumSeq(calls[Len(calls)].file_contents.byte_counts) >= bytes_exact

(***************************************************************************)
(* C40. Without a byte configuration neither generator creates a duplicate *)
(* spec or puts anything in the pending-duplicate buffer, whatever         *)
(* duplicate_percentage and max_duplicates_per_file are: every spec of     *)
(* every call has is_duplicate = false.                                    *)
(***************************************************************************)
NoDuplicatesWithoutBytes ==
    ~bytes =>
        /\ pending_duplicates = <<>>
        /\ \A i \in 1..Len(calls) : DupIdx(calls[i]) = {}

\* an ended run of the dynamic generator without byte configuration whose
\* duplicate settings would select every primary, and which made primaries
EmptyFilesNotDuplicated ==
    /\ kind = "dynamic"
    /\ ~bytes
    /\ duplicate_percentage = 100
    /\ max_duplicates_per_file >= 2
    /\ Terminated
    /\ CountSpecs(Tasks, FALSE) >= 2
    /\ CountSpecs(Tasks, TRUE) = 0

====
